---- MODULE Spec2Model ----
(***************************************************************************)
(* Model of the tiling generation engine of the Modulo Krinkle tiling      *)
(* editor (src/app.js, class KrinkleGenerator).                            *)
(*                                                                         *)
(* Geometry.  getVector(d) is the vector of length 100 at angle 2*pi*d/n.  *)
(* A point is kept here as the formal integer combination of the n         *)
(* direction vectors it was accumulated from: a function from 0..n-1 to    *)
(* Int, the coefficient of direction d being the number of steps taken     *)
(* along direction d.  cos and sin have period 2*pi, so direction index d  *)
(* and d + n give the same vector, and the rotation by i * (2*pi/n) sends  *)
(* direction d to direction d + i.  Two points that are equal as formal    *)
(* combinations are equal in the plane (up to floating-point rounding).    *)
(***************************************************************************)
EXTENDS Integers, Sequences, FiniteSets, TLC

\* ----------------------------------------------------------------------
\* Bounds of the model: the arguments the entry points are called with.
\* ----------------------------------------------------------------------
MaxM == 3
MaxK == 4
MaxN == 6
MaxRows == 2

\* ----------------------------------------------------------------------
\* TILING_CONFIG (src/app.js:14-43)
\* ----------------------------------------------------------------------
InitialColorCount == 3

\* The one entry of TILING_CONFIG.wedges: params plus a rule per wedge index.
ConfigWedges ==
    << [ params |-> [c |-> 3, m |-> 3, k |-> 7, n |-> 14],
         rules  |-> [w \in 0..13 |->
                      [ reverse    |-> (w % 2 # 0),
                        startColor |-> CASE w \in {0, 4, 6, 9, 12} -> 0
                                         [] w \in {1, 3, 8, 10}    -> 1
                                         [] OTHER                  -> 2 ]] ] >>

VARIABLES
    polygons,          \* this.polygons
    palette,           \* this.palette
    paletteType,       \* this.paletteType
    currentParams,     \* this.currentParams
    colorCount,        \* TILING_CONFIG.colorCount
    pc,                \* "idle" between calls, "loop" inside generateTiling's for loop
    args,              \* the arguments (m, k, n, rows, isOffset) the caller passes
    call,              \* the entry point last called
    l_seq,             \* l_seq of the last generatePrototile
    u_seq,             \* u_seq of the last generatePrototile / generateTiling
    baseWedge,         \* generateTiling: copy of wedge 0
    front_directions,  \* generateTiling: the front
    i,                 \* generateTiling: loop variable
    console,           \* messages written by the call in progress / last call
    ret,               \* value returned by the last call
    kept,              \* caller: (arguments, returned list) pairs it has kept
    inputs,            \* page: values of the input elements
    statusText,        \* page: statusText.textContent and colour
    timers,            \* page: pending setTimeout callbacks, oldest first
    running,           \* page: the callback being run, or None
    displayed,         \* page: what renderer.setDisplayData was last given
    events,            \* page: number of updateTiling calls so far
    modePreferences,   \* page: modePreferences[mode], showTiles and fillMode
    currentMode,       \* page: currentMode
    pending,           \* page: element whose 'change' event follows its 'input'
    chosen,            \* user: the values last chosen while each mode was current
    renderer,          \* renderer: viewport, drag, touch and hover state
    touches,           \* canvas: positions of the active touches, in order
    touchEvents        \* canvas: number of touch events so far

\* What no method of the generator reads or writes.
others == << kept, inputs, statusText, timers, running, displayed, events,
            modePreferences, currentMode, pending, chosen,
                    renderer, touches, touchEvents >>

vars == << polygons, palette, paletteType, currentParams, colorCount, pc, args, call,
           l_seq, u_seq, baseWedge, front_directions, i, console, ret, others >>

None == [none |-> TRUE]

\* const modePreferences = {...}
DefaultPreferences ==
    [ mode \in {"prototile", "wedge", "tiling"} |->
        [ showTiles |-> (mode = "wedge"), fillMode |-> "none" ] ]

\* Values of the input elements when the script starts: showTiles and
\* fillMode are set to the preference of the mode.
DefaultInputs ==
    [ m |-> 1, k |-> 3, t |-> 1, rows |-> 1, isOffset |-> FALSE,
      mode |-> "tiling", fill |-> DefaultPreferences["tiling"].fillMode,
      showTiles |-> DefaultPreferences["tiling"].showTiles ]

\* Half the canvas width and height; touch positions are even pixels
\* 0, 2, .., 2 * MaxCoord.
MaxCoord == 1

\* The renderer after its constructor: scale 1 (kept as the square of the
\* scale, a fraction, as the pinch distance is kept as its square), the view
\* centred, no touch seen, nothing hovered (null is written -1).
RendererInit ==
    [ scale2 |-> [num |-> 1, den |-> 1], offsetX |-> MaxCoord, offsetY |-> MaxCoord,
      isDragging |-> FALSE, lastX |-> 0, lastY |-> 0,
      lastPinchDist2 |-> 0, lastTouchCount |-> 0, hoveredWedgeIndex |-> -1 ]

OthersInit ==
    /\ kept = {}
    /\ inputs = DefaultInputs
    /\ statusText = ""
    /\ timers = << >>
    /\ running = None
    /\ displayed = None
    /\ events = 0
    /\ modePreferences = DefaultPreferences
    /\ currentMode = DefaultInputs.mode
    /\ pending = "none"
    /\ chosen = DefaultPreferences
    /\ renderer = RendererInit
    /\ touches = << >>
    /\ touchEvents = 0

\* ----------------------------------------------------------------------
\* Vectors
\* ----------------------------------------------------------------------
Dirs(n) == 0 .. (n - 1)

Origin(n) == [d \in Dirs(n) |-> 0]

\* getVector: direction index -> vector (angle dirIndex * 2*pi / n)
getVector(dirIndex, n) == [d \in Dirs(n) |-> IF d = dirIndex % n THEN 1 ELSE 0]

VAdd(a, b) == [d \in DOMAIN a |-> a[d] + b[d]]

VSub(a, b) == [d \in DOMAIN a |-> a[d] - b[d]]

VScale(s, a) == [d \in DOMAIN a |-> s * a[d]]

\* (x*cos - y*sin, x*sin + y*cos) with angle rotationIndex * unit_angle
Rotate(pt, rotationIndex, n) == [d \in Dirs(n) |-> pt[(d - rotationIndex) % n]]

Abs(x) == IF x < 0 THEN -x ELSE x

RECURSIVE SumAbs(_, _)
SumAbs(pt, d) == IF d < 0 THEN 0 ELSE Abs(pt[d]) + SumAbs(pt, d - 1)

\* Math.hypot(current.x, current.y), in units of the step length: 0 exactly
\* when every step is cancelled, and at most the number of uncancelled steps.
Hypot(pt, n) == SumAbs(pt, n - 1)

\* startX += v.x; startY += v.y for idx = 0 .. count-1 (1-based here)
RECURSIVE SumVectors(_, _, _)
SumVectors(seq, count, n) ==
    IF count = 0 THEN Origin(n)
    ELSE VAdd(SumVectors(seq, count - 1, n), getVector(seq[count], n))

Reverse(seq) == [j \in 1..Len(seq) |-> seq[Len(seq) + 1 - j]]

RECURSIVE gcd(_, _)
gcd(a, b) == IF b = 0 THEN a ELSE gcd(b, a % b)

\* ----------------------------------------------------------------------
\* Boundary sequences
\* ----------------------------------------------------------------------
\* SeqLoop with the break taken but hasShortPeriod left unset.
RECURSIVE SeqLoopNoFlag(_, _, _, _)
SeqLoopNoFlag(m, k, j, acc) ==
    IF j >= k THEN [seq |-> acc, short |-> FALSE]
    ELSE IF j > 0 /\ (j * m) % k = 0 THEN [seq |-> acc, short |-> FALSE]
    ELSE SeqLoopNoFlag(m, k, j + 1, Append(acc, (j * m) % k))

\* for (j = from; j < k; j++) { if (j > 0 && (j*m) % k == 0) break; push }
RECURSIVE SeqLoop(_, _, _, _)
SeqLoop(m, k, j, acc) ==
    IF j >= k THEN [seq |-> acc, short |-> FALSE]
    ELSE IF j > 0 /\ (j * m) % k = 0 THEN [seq |-> acc, short |-> TRUE]
    ELSE SeqLoop(m, k, j + 1, Append(acc, (j * m) % k))

BuildLSeq(m, k) ==
    LET lp == SeqLoop(m, k, 0, << >>)
    IN  [seq |-> Append(lp.seq, k), short |-> lp.short]

\* BuildUSeq with the loop started at j = 0, as the l_seq loop is.
BuildUSeqFromZero(m, k) ==
    LET lp == SeqLoop(m, k, 0, << k >>)
    IN  [seq |-> Append(lp.seq, 0), short |-> lp.short]

BuildUSeq(m, k) ==
    LET lp == SeqLoop(m, k, 1, << k >>)
    IN  [seq |-> Append(lp.seq, 0), short |-> lp.short]

\* ----------------------------------------------------------------------
\* generatePrototile
\* ----------------------------------------------------------------------
ParameterError == "Parameter Error: n must be >= k"

PrototileConsole(k, n) ==
    IF n < k THEN << [level |-> "error", wedge |-> -1, msg |-> ParameterError],
                     [level |-> "error", wedge |-> -1, msg |-> ParameterError] >>
    ELSE << >>

\* BuildPath with the upper boundary added instead of subtracted.
BuildPathAddingUpper(l, u, n) ==
    LET u_seq_rev == Reverse(u)
        tip == SumVectors(l, Len(l), n)
    IN  << Origin(n) >>
        \o [j \in 1..Len(l) |-> SumVectors(l, j, n)]
        \o [j \in 1..Len(u) |-> VAdd(tip, SumVectors(u_seq_rev, j, n))]

\* Forward along l_seq, then backward along the reversed u_seq.
BuildPath(l, u, n) ==
    LET u_seq_rev == Reverse(u)
        tip == SumVectors(l, Len(l), n)
    IN  << Origin(n) >>
        \o [j \in 1..Len(l) |-> SumVectors(l, j, n)]
        \o [j \in 1..Len(u) |-> VSub(tip, SumVectors(u_seq_rev, j, n))]

generatePrototile(m, k, n) ==
    LET L == BuildLSeq(m, k)
        U == BuildUSeq(m, k)
        path == BuildPath(L.seq, U.seq, n)
    IN  [ l_seq |-> L.seq,
          u_seq |-> U.seq,
          console |-> PrototileConsole(k, n),
          polygons |->
            << [ path   |-> path,
                 color  |-> "rgba(88, 166, 255, 0.4)",
                 stroke |-> "#58a6ff",
                 meta   |-> [ closureError   |-> Hypot(path[Len(path)], n),
                              hasShortPeriod |-> L.short \/ U.short ] ] >> ]

\* ----------------------------------------------------------------------
\* generatePalette / getColorIndex
\* ----------------------------------------------------------------------
\* One palette entry: the h, s, l numbers of the hsla(...) string.
PaletteColor(count, type, idx) ==
    IF type = "gray"
    THEN [h |-> 0, s |-> 0,
          l |-> 25 + (IF count > 1 THEN (55 * idx) \div (count - 1) ELSE 0)]
    ELSE [h |-> (360 * idx) \div count, s |-> 70, l |-> 60]

generatePalette(count, type) == [idx \in 1..count |-> PaletteColor(count, type, idx - 1)]

Undefined == [undefined |-> TRUE]

\* this.palette[idx] (0-based; undefined past the end)
PaletteAt(pal, idx) == IF idx + 1 \in 1..Len(pal) THEN pal[idx + 1] ELSE Undefined

\* WedgeConfig that never finds a rule (wedgeConfig stays {}).
WedgeConfigNoRule(wedgeIndex, params, count) == {}

\* The rule of wedgeIndex in the first configuration item matching
\* (count, m, k, n): a set holding that rule, or empty (wedgeConfig = {}).
WedgeConfig(wedgeIndex, params, count) ==
    LET matching == { x \in 1..Len(ConfigWedges) :
                        /\ ConfigWedges[x].params.c = count
                        /\ ConfigWedges[x].params.m = params.m
                        /\ ConfigWedges[x].params.k = params.k
                        /\ ConfigWedges[x].params.n = params.n }
    IN  IF matching = {} THEN {}
        ELSE LET item == ConfigWedges[CHOOSE x \in matching : \A y \in matching : x <= y]
             IN  IF wedgeIndex \in DOMAIN item.rules THEN { item.rules[wedgeIndex] } ELSE {}

\* getColorIndex without the early return for unset parameters.
getColorIndexNoGuard(r, c, wedgeIndex, params, count) ==
    LET wedgeConfig == WedgeConfig(wedgeIndex, params, count)
        reverse == IF wedgeConfig # {}
                   THEN (CHOOSE w \in wedgeConfig : TRUE).reverse
                   ELSE wedgeIndex % 2 # 0
        startColor == IF wedgeConfig # {}
                      THEN (CHOOSE w \in wedgeConfig : TRUE).startColor
                      ELSE wedgeIndex % count
        baseIndex == IF reverse THEN (count - ((r + c) % count)) % count
                     ELSE (r + c) % count
    IN  (baseIndex + startColor) % count

\* getColorIndex returning baseIndex + startColor without the final % count.
getColorIndexNoFinalMod(r, c, wedgeIndex, params, count) ==
    IF params.m = 0 \/ params.k = 0 \/ params.n = 0 THEN wedgeIndex % count
    ELSE LET wedgeConfig == WedgeConfig(wedgeIndex, params, count)
             reverse == IF wedgeConfig # {}
                        THEN (CHOOSE w \in wedgeConfig : TRUE).reverse
                        ELSE wedgeIndex % 2 # 0
             startColor == IF wedgeConfig # {}
                           THEN (CHOOSE w \in wedgeConfig : TRUE).startColor
                           ELSE wedgeIndex % count
             baseIndex == IF reverse THEN (count - ((r + c) % count)) % count
                          ELSE (r + c) % count
         IN  baseIndex + startColor

getColorIndex(r, c, wedgeIndex, params, count) ==
    IF params.m = 0 \/ params.k = 0 \/ params.n = 0 THEN wedgeIndex % count
    ELSE LET wedgeConfig == WedgeConfig(wedgeIndex, params, count)
             reverse == IF wedgeConfig # {}
                        THEN (CHOOSE w \in wedgeConfig : TRUE).reverse
                        ELSE wedgeIndex % 2 # 0
             startColor == IF wedgeConfig # {}
                           THEN (CHOOSE w \in wedgeConfig : TRUE).startColor
                           ELSE wedgeIndex % count
             baseIndex == IF reverse THEN (count - ((r + c) % count)) % count
                          ELSE (r + c) % count
         IN  (baseIndex + startColor) % count

\* ----------------------------------------------------------------------
\* generateWedge
\* ----------------------------------------------------------------------
\* d0: for (j = 0; j < k; j++) { if (j > 0 && (j*m) % k == 0) break; d0 += v(l_seq[j]) }
RECURSIVE D0Loop(_, _, _, _, _, _)
D0Loop(m, k, n, l, j, d0) ==
    IF j >= k THEN d0
    ELSE IF j > 0 /\ (j * m) % k = 0 THEN d0
    ELSE D0Loop(m, k, n, l, j + 1, VAdd(d0, getVector(l[j + 1], n)))

\* ComputeD0 summing every entry of l_seq, the sentinel k included.
ComputeD0WithSentinel(m, k, n) ==
    LET l == BuildLSeq(m, k).seq
    IN  SumVectors(l, Len(l), n)

ComputeD0(m, k, n) == D0Loop(m, k, n, BuildLSeq(m, k).seq, 0, Origin(n))

ComputeD1(k, n) == VSub(getVector(k, n), getVector(0, n))

\* shift = r * d0 + c * d1
TileShift(r, c, d0, d1) == VAdd(VScale(r, d0), VScale(c, d1))

WedgeTile(basePath, r, c, tileIndex, d0, d1, pal, params, count) ==
    LET shift == TileShift(r, c, d0, d1)
    IN  [ path   |-> [j \in 1..Len(basePath) |-> VAdd(basePath[j], shift)],
          color  |-> PaletteAt(pal, getColorIndex(r, c, 0, params, count)),
          stroke |-> "#888",
          meta   |-> [wedgeIndex |-> 0, tileIndex |-> tileIndex, r |-> r, c |-> c] ]

\* WedgeCols with the column loop stopping one short (c < r).
RECURSIVE WedgeColsShort(_, _, _, _, _, _, _, _, _)
WedgeColsShort(basePath, r, c, acc, d0, d1, pal, params, count) ==
    IF c >= r THEN acc
    ELSE WedgeColsShort(basePath, r, c + 1,
                        [ polygons  |-> Append(acc.polygons,
                                               WedgeTile(basePath, r, c, acc.tileIndex,
                                                         d0, d1, pal, params, count)),
                          tileIndex |-> acc.tileIndex + 1 ],
                        d0, d1, pal, params, count)

\* for (c = 0; c <= r; c++) push tile, tileIndex++
RECURSIVE WedgeCols(_, _, _, _, _, _, _, _, _)
WedgeCols(basePath, r, c, acc, d0, d1, pal, params, count) ==
    IF c > r THEN acc
    ELSE WedgeCols(basePath, r, c + 1,
                   [ polygons  |-> Append(acc.polygons,
                                          WedgeTile(basePath, r, c, acc.tileIndex,
                                                    d0, d1, pal, params, count)),
                     tileIndex |-> acc.tileIndex + 1 ],
                   d0, d1, pal, params, count)

\* WedgeRows with the row loop running through r = rows.
RECURSIVE WedgeRowsInclusive(_, _, _, _, _, _, _, _, _)
WedgeRowsInclusive(basePath, r, rows, acc, d0, d1, pal, params, count) ==
    IF r > rows THEN acc
    ELSE WedgeRowsInclusive(basePath, r + 1, rows,
                            WedgeCols(basePath, r, 0, acc, d0, d1, pal, params, count),
                            d0, d1, pal, params, count)

\* for (r = 0; r < rows; r++)
RECURSIVE WedgeRows(_, _, _, _, _, _, _, _, _)
WedgeRows(basePath, r, rows, acc, d0, d1, pal, params, count) ==
    IF r >= rows THEN acc
    ELSE WedgeRows(basePath, r + 1, rows,
                   WedgeCols(basePath, r, 0, acc, d0, d1, pal, params, count),
                   d0, d1, pal, params, count)

\* The whole of generateWedge: the fields of the generator it writes
\* (polygons, palette), what it logs and what it returns.
generateWedge(m, k, n, rows, count, type) ==
    LET params == [m |-> m, k |-> k, n |-> n]
        proto == generatePrototile(m, k, n)
        basePoly == proto.polygons[1]
        pal == generatePalette(count, type)
        tiles == WedgeRows(basePoly.path, 0, rows,
                           [polygons |-> << >>, tileIndex |-> 0],
                           ComputeD0(m, k, n), ComputeD1(k, n), pal, params, count).polygons
    IN  IF Len(proto.polygons) = 0 \/ Len(basePoly.path) = 0
        THEN [ polygons |-> proto.polygons, palette |-> << >>, regenerated |-> FALSE,
               l_seq |-> proto.l_seq, u_seq |-> proto.u_seq,
               console |-> proto.console, ret |-> proto.polygons ]
        ELSE [ polygons |-> tiles, palette |-> pal, regenerated |-> TRUE,
               l_seq |-> proto.l_seq, u_seq |-> proto.u_seq,
               console |-> proto.console, ret |-> tiles ]

\* ----------------------------------------------------------------------
\* generateTiling
\* ----------------------------------------------------------------------
\* 2 * w_limit, where w_limit = isOffset ? (n / 2) : n.  n / 2 is a fraction
\* for odd n; the loop test i < w_limit is 2 * i < 2 * w_limit.
TwiceWLimit(n, isOffset) == IF isOffset THEN n ELSE 2 * n

\* InLoop with the loop test written i <= w_limit.
InLoopInclusive(idx, n, isOffset) == 2 * idx <= TwiceWLimit(n, isOffset)

InLoop(idx, n, isOffset) == 2 * idx < TwiceWLimit(n, isOffset)

\* InitialFront keeping the closing sentinel 0 of u_seq.
InitialFrontWhole(u) == u

\* front_directions = u_seq.slice(0, u_seq.length - 1)
InitialFront(u) == SubSeq(u, 1, Len(u) - 1)

\* TransformedTile copying the colour of the base-wedge tile.
TransformedTileCopyColor(p, offset, rotationIndex, pal, params, count, n) ==
    [ path   |-> [j \in 1..Len(p.path) |-> VAdd(Rotate(p.path[j], rotationIndex, n), offset)],
      color  |-> p.color,
      stroke |-> "#888",
      meta   |-> [p.meta EXCEPT !.wedgeIndex = rotationIndex] ]

\* One polygon of addTransformedWedge: rotate, then translate.
TransformedTile(p, offset, rotationIndex, pal, params, count, n) ==
    [ path   |-> [j \in 1..Len(p.path) |-> VAdd(Rotate(p.path[j], rotationIndex, n), offset)],
      color  |-> PaletteAt(pal, getColorIndex(p.meta.r, p.meta.c, rotationIndex, params, count)),
      stroke |-> "#888",
      meta   |-> [p.meta EXCEPT !.wedgeIndex = rotationIndex] ]

\* addTransformedWedge putting the new polygons in front of the list
\* (unshift) instead of at its end (push).
addTransformedWedgeUnshift(cur, pal, polys, offset, rotationIndex, params, count, type, n) ==
    LET pal2 == IF Len(pal) # count THEN generatePalette(count, type) ELSE pal
    IN  [ palette  |-> pal2,
          polygons |-> [t \in 1..Len(polys) |->
                          TransformedTile(polys[t], offset, rotationIndex,
                                          pal2, params, count, n)] \o cur ]

\* addTransformedWedge: regenerates the palette when its length is not
\* colorCount, and pushes one transformed polygon per polygon of polys.
addTransformedWedge(cur, pal, polys, offset, rotationIndex, params, count, type, n) ==
    LET pal2 == IF Len(pal) # count THEN generatePalette(count, type) ELSE pal
    IN  [ palette  |-> pal2,
          polygons |-> cur \o [t \in 1..Len(polys) |->
                                 TransformedTile(polys[t], offset, rotationIndex,
                                                 pal2, params, count, n)] ]

\* j_star: the smallest index of the front holding wanted (1-based; 0 when
\* there is none, where the code has -1).
FindJStar(front, wanted) ==
    LET hits == { idx \in 1..Len(front) : front[idx] = wanted }
    IN  IF hits = {} THEN 0 ELSE CHOOSE idx \in hits : \A other \in hits : idx <= other

\* StartPosition with the sum running through front[j_star] itself.
StartPositionInclusive(front, jStar, n) == SumVectors(front, jStar, n)

\* start position: the sum of the vectors of front[0 .. j_star - 1]
StartPosition(front, jStar, n) == SumVectors(front, jStar - 1, n)

\* UpdateFront writing i + k + 1.
UpdateFrontOffByOne(front, jStar, idx, k) == [front EXCEPT ![jStar] = idx + k + 1]

\* front_directions[j_star] = i + k
UpdateFront(front, jStar, idx, k) == [front EXCEPT ![jStar] = idx + k]

\* ReflectPoint about the origin instead of the pivot.
ReflectAboutOrigin(pt, n) == VSub(Origin(n), pt)

\* x' = 2 * pivot.x - x with pivot = getVector(0) / 2
ReflectPoint(pt, n) == VSub(getVector(0, n), pt)

ReflectedTile(p, n) ==
    [ path   |-> [j \in 1..Len(p.path) |-> ReflectPoint(p.path[j], n)],
      color  |-> p.color,
      stroke |-> p.stroke,
      meta   |-> [ wedgeIndex |-> p.meta.wedgeIndex + 10000,
                   tileIndex  |-> p.meta.tileIndex,
                   r          |-> p.meta.r,
                   c          |-> p.meta.c,
                   isCopy     |-> TRUE ] ]

\* currentPolys.forEach(p => this.polygons.push(reflected p))
RotationCopy(polys, n) == polys \o [t \in 1..Len(polys) |-> ReflectedTile(polys[t], n)]

\* ----------------------------------------------------------------------
\* State machine
\* ----------------------------------------------------------------------
Args == [ m : 0..MaxM, k : 1..MaxK, n : 1..MaxN, rows : 0..MaxRows, isOffset : BOOLEAN ]

Init ==
    /\ polygons = << >>
    /\ palette = << >>
    /\ paletteType = "color"
    /\ currentParams = [m |-> 0, k |-> 0, n |-> 0]
    /\ colorCount = InitialColorCount
    /\ pc = "idle"
    /\ args \in Args
    /\ call = "none"
    /\ l_seq = << >>
    /\ u_seq = << >>
    /\ baseWedge = << >>
    /\ front_directions = << >>
    /\ i = 0
    /\ console = << >>
    /\ ret = << >>
    /\ OthersInit

CallGeneratePrototile ==
    /\ pc = "idle"
    /\ LET g == generatePrototile(args.m, args.k, args.n)
       IN  /\ call' = "generatePrototile"
           /\ polygons' = g.polygons
           /\ l_seq' = g.l_seq
           /\ u_seq' = g.u_seq
           /\ console' = g.console
           /\ ret' = g.polygons
    /\ baseWedge' = << >>
    /\ front_directions' = << >>
    /\ i' = 0
    /\ UNCHANGED << palette, paletteType, currentParams, colorCount, pc, args >>
    /\ UNCHANGED others

\* CallGenerateWedge without the this.generatePalette() call of generateWedge:
\* the tiles take their colours from the palette as it stands.
CallGenerateWedgeStalePalette ==
    /\ pc = "idle"
    /\ LET g == generateWedge(args.m, args.k, args.n, args.rows, colorCount, paletteType)
           params == [m |-> args.m, k |-> args.k, n |-> args.n]
           tiles == [t \in 1..Len(g.ret) |->
                       [g.ret[t] EXCEPT !.color =
                          PaletteAt(palette, getColorIndex(g.ret[t].meta.r, g.ret[t].meta.c,
                                                           0, params, colorCount))]]
       IN  /\ call' = "generateWedge"
           /\ currentParams' = params
           /\ polygons' = tiles
           /\ l_seq' = g.l_seq
           /\ u_seq' = g.u_seq
           /\ console' = g.console
           /\ ret' = tiles
    /\ baseWedge' = << >>
    /\ front_directions' = << >>
    /\ i' = 0
    /\ UNCHANGED << palette, paletteType, colorCount, pc, args >>
    /\ UNCHANGED others

CallGenerateWedge ==
    /\ pc = "idle"
    /\ LET g == generateWedge(args.m, args.k, args.n, args.rows, colorCount, paletteType)
       IN  /\ call' = "generateWedge"
           /\ currentParams' = [m |-> args.m, k |-> args.k, n |-> args.n]
           /\ polygons' = g.polygons
           /\ palette' = IF g.regenerated THEN g.palette ELSE palette
           /\ l_seq' = g.l_seq
           /\ u_seq' = g.u_seq
           /\ console' = g.console
           /\ ret' = g.ret
    /\ baseWedge' = << >>
    /\ front_directions' = << >>
    /\ i' = 0
    /\ UNCHANGED << paletteType, colorCount, pc, args >>
    /\ UNCHANGED others

\* GenerateTilingBegin keeping a front left by an earlier call instead of
\* rebuilding it from u_seq.
GenerateTilingBeginKeepFront ==
    /\ pc = "idle"
    /\ LET params == [m |-> args.m, k |-> args.k, n |-> args.n]
           u == BuildUSeq(args.m, args.k).seq
           w == generateWedge(args.m, args.k, args.n, args.rows, colorCount, paletteType)
           pal == IF w.regenerated THEN w.palette ELSE palette
           first == addTransformedWedge(<< >>, pal, w.ret, Origin(args.n), 0,
                                        params, colorCount, paletteType, args.n)
       IN  /\ call' = "generateTiling"
           /\ currentParams' = params
           /\ l_seq' = w.l_seq
           /\ u_seq' = u
           /\ console' = w.console
           /\ IF Len(w.ret) = 0
              THEN /\ polygons' = w.polygons
                   /\ palette' = pal
                   /\ ret' = << >>
                   /\ baseWedge' = << >>
                   /\ front_directions' = << >>
                   /\ i' = 0
                   /\ pc' = "idle"
              ELSE /\ polygons' = first.polygons
                   /\ palette' = first.palette
                   /\ ret' = << >>
                   /\ baseWedge' = w.ret
                   /\ front_directions' = IF Len(front_directions) = Len(u) - 1
                                          THEN front_directions ELSE InitialFront(u)
                   /\ i' = 1
                   /\ pc' = "loop"
    /\ UNCHANGED << paletteType, colorCount, args >>
    /\ UNCHANGED others

\* generateTiling up to the start of the for loop (or its early return).
GenerateTilingBegin ==
    /\ pc = "idle"
    /\ LET params == [m |-> args.m, k |-> args.k, n |-> args.n]
           u == BuildUSeq(args.m, args.k).seq
           w == generateWedge(args.m, args.k, args.n, args.rows, colorCount, paletteType)
           pal == IF w.regenerated THEN w.palette ELSE palette
           first == addTransformedWedge(<< >>, pal, w.ret, Origin(args.n), 0,
                                        params, colorCount, paletteType, args.n)
       IN  /\ call' = "generateTiling"
           /\ currentParams' = params
           /\ l_seq' = w.l_seq
           /\ u_seq' = u
           /\ console' = w.console
           /\ IF Len(w.ret) = 0
              THEN /\ polygons' = w.polygons
                   /\ palette' = pal
                   /\ ret' = << >>
                   /\ baseWedge' = << >>
                   /\ front_directions' = << >>
                   /\ i' = 0
                   /\ pc' = "idle"
              ELSE /\ polygons' = first.polygons
                   /\ palette' = first.palette
                   /\ ret' = << >>
                   /\ baseWedge' = w.ret
                   /\ front_directions' = InitialFront(u)
                   /\ i' = 1
                   /\ pc' = "loop"
    /\ UNCHANGED << paletteType, colorCount, args >>
    /\ UNCHANGED others

FoundMessage(idx, jStar, front) ==
    [level |-> "log", wedge |-> idx, j_star |-> jStar - 1, front |-> front]

NotFoundWarning(idx) ==
    [level |-> "warn", wedge |-> idx]

\* One iteration of the for loop in which front_directions holds i.
PlaceWedge ==
    /\ pc = "loop"
    /\ InLoop(i, args.n, args.isOffset)
    /\ LET jStar == FindJStar(front_directions, i)
           placed == addTransformedWedge(polygons, palette, baseWedge,
                                         StartPosition(front_directions, jStar, args.n), i,
                                         currentParams, colorCount, paletteType, args.n)
       IN  /\ jStar # 0
           /\ console' = Append(console, FoundMessage(i, jStar, front_directions))
           /\ polygons' = placed.polygons
           /\ palette' = placed.palette
           /\ front_directions' = UpdateFront(front_directions, jStar, i, args.k)
    /\ i' = i + 1
    /\ UNCHANGED << paletteType, currentParams, colorCount, pc, args, call,
                    l_seq, u_seq, baseWedge, ret >>
    /\ UNCHANGED others

\* SkipWedge leaving the loop (break) instead of going on (continue).
SkipWedgeBreak ==
    /\ pc = "loop"
    /\ InLoop(i, args.n, args.isOffset)
    /\ FindJStar(front_directions, i) = 0
    /\ console' = console \o << FoundMessage(i, 0, front_directions), NotFoundWarning(i) >>
    /\ i' = args.n
    /\ UNCHANGED << polygons, palette, paletteType, currentParams, colorCount, pc, args,
                    call, l_seq, u_seq, baseWedge, front_directions, ret >>
    /\ UNCHANGED others

\* One iteration of the for loop in which no entry of front_directions is i.
SkipWedge ==
    /\ pc = "loop"
    /\ InLoop(i, args.n, args.isOffset)
    /\ FindJStar(front_directions, i) = 0
    /\ console' = console \o << FoundMessage(i, 0, front_directions), NotFoundWarning(i) >>
    /\ i' = i + 1
    /\ UNCHANGED << polygons, palette, paletteType, currentParams, colorCount, pc, args,
                    call, l_seq, u_seq, baseWedge, front_directions, ret >>
    /\ UNCHANGED others

\* The loop ends: the rotation copy in offset mode, then the return.
GenerateTilingEnd ==
    /\ pc = "loop"
    /\ ~ InLoop(i, args.n, args.isOffset)
    /\ polygons' = IF args.isOffset THEN RotationCopy(polygons, args.n) ELSE polygons
    /\ ret' = polygons'
    /\ pc' = "idle"
    /\ UNCHANGED << palette, paletteType, currentParams, colorCount, args, call,
                    l_seq, u_seq, baseWedge, front_directions, i, console >>
    /\ UNCHANGED others

Next ==
    \/ CallGeneratePrototile
    \/ CallGenerateWedge
    \/ GenerateTilingBegin
    \/ PlaceWedge
    \/ SkipWedge
    \/ GenerateTilingEnd

Spec == Init /\ [][Next]_vars

\* ----------------------------------------------------------------------
\* Properties
\* ----------------------------------------------------------------------
\* The first j > 0 with (j*m) mod k = 0, or k when there is none.
StopIndex(m, k) ==
    LET zeros == { j \in 1..(k - 1) : (j * m) % k = 0 }
    IN  IF zeros = {} THEN k ELSE CHOOSE j \in zeros : \A other \in zeros : j <= other

Count(seq, v) == Cardinality({ j \in 1..Len(seq) : seq[j] = v })

SameMultiset(a, b) ==
    /\ Len(a) = Len(b)
    /\ \A j \in 1..Len(a) : Count(a, a[j]) = Count(b, a[j])

AfterPrototile == pc = "idle" /\ call = "generatePrototile"

\* C1: l_seq is (j*m) mod k for j = 0, 1, ... up to (not including) the first
\* j > 0 whose term is 0, or up to k - 1, followed by the sentinel k; u_seq is
\* the sentinel k, the same terms from j = 1, followed by the sentinel 0; with
\* no early stop both have k + 1 entries; for (m, k) = (3, 7) they are
\* <<0,3,6,2,5,1,4,7>> and <<7,3,6,2,5,1,4,0>>.
C1_BoundarySequences ==
    /\ AfterPrototile =>
         LET m == args.m
             k == args.k
             stop == StopIndex(m, k)
         IN  /\ Len(l_seq) = stop + 1
             /\ \A j \in 0..(stop - 1) : l_seq[j + 1] = (j * m) % k
             /\ l_seq[stop + 1] = k
             /\ Len(u_seq) = stop + 1
             /\ u_seq[1] = k
             /\ \A j \in 1..(stop - 1) : u_seq[j + 1] = (j * m) % k
             /\ u_seq[stop + 1] = 0
             /\ (stop = k => Len(l_seq) = k + 1 /\ Len(u_seq) = k + 1)
    /\ BuildLSeq(3, 7).seq = << 0, 3, 6, 2, 5, 1, 4, 7 >>
    /\ BuildUSeq(3, 7).seq = << 7, 3, 6, 2, 5, 1, 4, 0 >>

\* A prototile was generated for m = 3, k = 4, whose sequences run to the
\* full k + 1 entries.
C1_Witness ==
    /\ AfterPrototile
    /\ args.k = 4
    /\ args.m = 3
    /\ l_seq = << 0, 3, 2, 1, 4 >>
    /\ u_seq = << 4, 3, 2, 1, 0 >>

\* C2: hasShortPeriod is true exactly when some j with 0 < j < k has
\* (j*m) mod k = 0, which is the case whenever gcd(m, k) > 1; then l_seq and
\* u_seq each hold fewer than k + 1 entries; with gcd(m, k) = 1 the flag is
\* false and both sequences hold k + 1 entries.
C2_ShortPeriod ==
    AfterPrototile =>
      LET m == args.m
          k == args.k
          flag == ret[1].meta.hasShortPeriod
      IN  /\ flag = (\E j \in 1..(k - 1) : (j * m) % k = 0)
          /\ (gcd(m, k) > 1 => flag)
          /\ (flag => Len(l_seq) < k + 1 /\ Len(u_seq) < k + 1)
          /\ (gcd(m, k) = 1 => ~ flag /\ Len(l_seq) = k + 1 /\ Len(u_seq) = k + 1)

\* A prototile with a short period: m = 2, k = 4 stops at j = 2.
C2_Witness ==
    /\ AfterPrototile
    /\ args.m = 2
    /\ args.k = 4
    /\ ret[1].meta.hasShortPeriod
    /\ Len(l_seq) = 3

\* C3: for coprime (m, k) with 1 <= m < k and n >= k the directions stepped
\* forward (all of l_seq) and the directions stepped backward (all of u_seq,
\* in reverse order) are the same multiset, the path has 1 + |L| + |U| points,
\* point j + 1 is point j plus the vector of l_seq[j], each later point is the
\* one before minus the vector of the next entry of the reversed u_seq, the
\* last point is the first and the closure error is 0.
C3_Closure ==
    (AfterPrototile /\ gcd(args.m, args.k) = 1 /\ 1 <= args.m /\ args.m < args.k
       /\ args.n >= args.k) =>
      LET n == args.n
          path == ret[1].path
          nl == Len(l_seq)
          nu == Len(u_seq)
      IN  /\ SameMultiset(l_seq, u_seq)
          /\ Len(path) = 1 + nl + nu
          /\ path[1] = Origin(n)
          /\ \A j \in 1..nl : path[j + 1] = VAdd(path[j], getVector(l_seq[j], n))
          /\ \A j \in 1..nu :
               path[nl + 1 + j] = VSub(path[nl + j], getVector(u_seq[nu + 1 - j], n))
          /\ path[Len(path)] = path[1]
          /\ ret[1].meta.closureError = 0

\* A closed prototile for coprime parameters with n > k.
C3_Witness ==
    /\ AfterPrototile
    /\ args.m = 2
    /\ args.k = 3
    /\ args.n = 6
    /\ Len(ret[1].path) = 9
    /\ ret[1].path[5] # Origin(6)
    /\ ret[1].path[9] = Origin(6)

AfterWedge == pc = "idle" /\ call = "generateWedge"

AfterTiling == pc = "idle" /\ call = "generateTiling"

Triangular(rows) == (rows * (rows + 1)) \div 2

\* C4: when n < k every entry point reports the parameter error and returns
\* an empty result instead of polygons built from the invalid parameters.
C4_AbortsWhenNLessThanK ==
    (pc = "idle" /\ call # "none" /\ args.n < args.k) =>
      /\ \E e \in 1..Len(console) : console[e].level = "error"
      /\ ret = << >>

\* C5: generateWedge returns exactly rows*(rows+1)/2 polygons, one per (r, c)
\* with 0 <= c <= r < rows, all with wedgeIndex 0, the polygon at position t
\* (from 0) having tileIndex t and being the t-th pair in row-major order;
\* generateWedge(3, 7, 14, 3) returns 6 polygons with tileIndex 0..5.
C5_WedgeTileCount ==
    /\ AfterWedge =>
         /\ Len(ret) = Triangular(args.rows)
         /\ \A t \in 1..Len(ret) :
              LET meta == ret[t].meta
              IN  /\ meta.wedgeIndex = 0
                  /\ meta.tileIndex = t - 1
                  /\ 0 <= meta.c /\ meta.c <= meta.r /\ meta.r < args.rows
                  /\ meta.tileIndex = Triangular(meta.r) + meta.c
         /\ \A r \in 0..(args.rows - 1) : \A c \in 0..r :
              \E t \in 1..Len(ret) : ret[t].meta.r = r /\ ret[t].meta.c = c
         /\ ret = polygons
    /\ call = "none" =>
         LET example == generateWedge(3, 7, 14, 3, 3, "color").ret
         IN  /\ Len(example) = 6
             /\ \A t \in 1..6 : example[t].meta.tileIndex = t - 1

\* A wedge of two rows: three tiles, the last one at (r, c) = (1, 1).
C5_Witness ==
    /\ AfterWedge
    /\ args.rows = 2
    /\ Len(ret) = 3
    /\ ret[3].meta.r = 1
    /\ ret[3].meta.c = 1
    /\ ret[3].meta.tileIndex = 2

\* C6: the tile at (r, c) is the prototile path translated by r*d0 + c*d1,
\* d0 being the sum of the vectors of l_seq without its last entry (the
\* sentinel k) and d1 = vector(k) - vector(0); every tile has as many
\* vertices as the prototile and tile (0, 0) is the prototile.
C6_WedgeTranslation ==
    AfterWedge =>
      LET n == args.n
          proto == generatePrototile(args.m, args.k, n).polygons[1].path
          d0 == SumVectors(l_seq, Len(l_seq) - 1, n)
          d1 == VSub(getVector(args.k, n), getVector(0, n))
      IN  /\ l_seq[Len(l_seq)] = args.k
          /\ \A t \in 1..Len(ret) :
               LET r == ret[t].meta.r
                   c == ret[t].meta.c
               IN  /\ Len(ret[t].path) = Len(proto)
                   /\ \A q \in 1..Len(proto) :
                        ret[t].path[q] = VAdd(proto[q], VAdd(VScale(r, d0), VScale(c, d1)))
                   /\ (r = 0 /\ c = 0 => ret[t].path = proto)

\* A wedge with a short period (m = 2, k = 4) whose tile (1, 1) is shifted by
\* d0 + d1 = vector(2) + vector(4): its first point is not the origin.
C6_Witness ==
    /\ AfterWedge
    /\ args.m = 2
    /\ args.k = 4
    /\ args.n = 6
    /\ args.rows = 2
    /\ ret[3].path[1] = VAdd(getVector(2, 6), getVector(4, 6))
    /\ ret[1].path[1] = Origin(6)

IsPrimary(p) == "isCopy" \notin DOMAIN p.meta

\* Positions of the primary tiles of wedge w.
WedgeTiles(polys, w) ==
    { t \in 1..Len(polys) : IsPrimary(polys[t]) /\ polys[t].meta.wedgeIndex = w }

\* w < w_limit, with w_limit = n / 2 in offset mode and n otherwise.
BelowWLimit(w) == IF args.isOffset THEN 2 * w < args.n ELSE w < args.n

\* Console lines "Wedge w: Found j_star = ..." of wedge w: one per loop iteration.
Attempts(w) == { e \in 1..Len(console) : console[e].level = "log" /\ console[e].wedge = w }

Warnings(w) == { e \in 1..Len(console) : console[e].level = "warn" /\ console[e].wedge = w }

Least(S) == CHOOSE x \in S : \A y \in S : x <= y

C8_FrontStep ==
    [][ /\ (pc = "idle" /\ pc' = "loop") =>
             /\ u_seq'[Len(u_seq')] = 0
             /\ Len(front_directions') = Len(u_seq') - 1
             /\ \A j \in 1..Len(front_directions') : front_directions'[j] = u_seq'[j]
             /\ i' = 1
        /\ (pc = "loop" /\ pc' = "loop"
              /\ \E j \in 1..Len(front_directions) : front_directions[j] = i) =>
             LET n == args.n
                 jStar == Least({ j \in 1..Len(front_directions) : front_directions[j] = i })
                 offset == SumVectors(front_directions, jStar - 1, n)
                 before == Len(polygons)
             IN  /\ i' = i + 1
                 /\ Len(front_directions') = Len(front_directions)
                 /\ front_directions'[jStar] = i + args.k
                 /\ \A j \in 1..Len(front_directions) :
                      j # jStar => front_directions'[j] = front_directions[j]
                 /\ Len(polygons') = before + Len(baseWedge)
                 /\ \A t \in 1..Len(baseWedge) :
                      /\ polygons'[before + t].meta.wedgeIndex = i
                      /\ \A q \in 1..Len(baseWedge[t].path) :
                           polygons'[before + t].path[q] =
                             VAdd(Rotate(baseWedge[t].path[q], i, n), offset)
      ]_vars

\* m = 1, k = 3, n = 6: wedge 1 was found at the second entry of the front
\* <<3, 1, 2>>, placed at vector(3), and that entry is now 1 + 3.
C8_Witness ==
    /\ pc = "loop"
    /\ args.m = 1
    /\ args.k = 3
    /\ args.n = 6
    /\ args.rows = 1
    /\ i = 2
    /\ front_directions = << 3, 4, 2 >>
    /\ polygons[2].path[1] = getVector(3, 6)

\* C9: an iteration that finds no front entry equal to i emits no tile,
\* leaves the front unchanged, logs a warning and goes on with i + 1; the
\* loop ends only when i has reached w_limit, and the returned list holds no
\* tile, original or reflected, of a wedge that was skipped.
C9_SkipStep ==
    [][ /\ (pc = "loop" /\ BelowWLimit(i)
              /\ ~ \E j \in 1..Len(front_directions) : front_directions[j] = i) =>
             /\ polygons' = polygons
             /\ front_directions' = front_directions
             /\ \E e \in 1..Len(console') :
                  console'[e].level = "warn" /\ console'[e].wedge = i
             /\ i' = i + 1
             /\ pc' = "loop"
        /\ (pc = "loop" /\ pc' = "idle") =>
             /\ ~ BelowWLimit(i)
             /\ \A w \in 1..args.n :
                  BelowWLimit(w) => Attempts(w) # {}
             /\ \A w \in 1..args.n :
                  Warnings(w) # {} =>
                    \A t \in 1..Len(ret') : ret'[t].meta.wedgeIndex \notin {w, w + 10000}
      ]_vars

\* m = 2, k = 4, n = 4: wedge 1 was skipped and wedge 2 placed after it.
C9_Witness ==
    /\ AfterTiling
    /\ args.m = 2
    /\ args.k = 4
    /\ args.n = 4
    /\ ~ args.isOffset
    /\ args.rows = 1
    /\ Warnings(1) # {}
    /\ Warnings(3) # {}
    /\ WedgeTiles(ret, 1) = {}
    /\ WedgeTiles(ret, 2) = {2}

\* Number of polygons of the primary pass: rows*(rows+1)/2 for wedge 0 and
\* for every wedge the loop found in the front.
PrimaryCount ==
    IF Len(baseWedge) = 0 THEN 0
    ELSE Triangular(args.rows)
           * (1 + Cardinality({ e \in 1..Len(console) :
                                  console[e].level = "log" /\ console[e].j_star >= 0 }))

\* C10: in offset mode generateTiling returns 2N polygons, N being the number
\* of polygons of the primary pass; polygon N + j has every point p' with
\* p' + p = 2 * pivot = vector(0) for the same-position point p of polygon j,
\* the same color, stroke, r, c and tileIndex, isCopy = TRUE and wedgeIndex
\* 10000 more; without offset mode N polygons are returned, none with isCopy.
C10_OffsetSymmetry ==
    AfterTiling =>
      LET N == PrimaryCount
      IN  IF args.isOffset
          THEN /\ Len(ret) = 2 * N
               /\ \A j \in 1..N :
                    LET src == ret[j]
                        copy == ret[N + j]
                    IN  /\ IsPrimary(src)
                        /\ ~ IsPrimary(copy)
                        /\ copy.meta.isCopy = TRUE
                        /\ copy.meta.wedgeIndex = src.meta.wedgeIndex + 10000
                        /\ copy.meta.r = src.meta.r
                        /\ copy.meta.c = src.meta.c
                        /\ copy.meta.tileIndex = src.meta.tileIndex
                        /\ copy.color = src.color
                        /\ copy.stroke = src.stroke
                        /\ Len(copy.path) = Len(src.path)
                        /\ \A q \in 1..Len(src.path) :
                             VAdd(copy.path[q], src.path[q]) = getVector(0, args.n)
          ELSE /\ Len(ret) = N
               /\ \A t \in 1..Len(ret) : IsPrimary(ret[t])

\* Offset mode with m = 2, k = 4, n = 6: wedge 1 was skipped, wedges 0 and 2
\* make 6 primary polygons and 6 reflected ones.
C10_Witness ==
    /\ AfterTiling
    /\ args.isOffset
    /\ args.m = 2
    /\ args.k = 4
    /\ args.n = 6
    /\ args.rows = 2
    /\ Warnings(1) # {}
    /\ Len(ret) = 12
    /\ ret[12].meta.wedgeIndex = 10002
    /\ ret[12].color = ret[6].color

\* b is the tile after a in the row-major order of one wedge.
RowMajorNext(a, b) ==
    \/ b.meta.r = a.meta.r /\ b.meta.c = a.meta.c + 1
    \/ a.meta.c = a.meta.r /\ b.meta.r = a.meta.r + 1 /\ b.meta.c = 0

\* C12: in the list generateTiling returns the primary tiles come first; two
\* neighbouring primary tiles are either of one wedge and consecutive in
\* row-major (r, then c) order, or the second opens a wedge of strictly
\* greater index at (r, c) = (0, 0), so that the tiles of a wedge are
\* contiguous and the wedge indices strictly increase; in offset mode the
\* reflected tiles follow all primary tiles, one per primary tile and in the
\* order of their sources.
C12_Ordering ==
    AfterTiling =>
      LET N == PrimaryCount
      IN  /\ \A j \in 1..Len(ret) : IsPrimary(ret[j]) <=> j <= N
          /\ (N > 0 => ret[1].meta.wedgeIndex = 0 /\ ret[1].meta.r = 0 /\ ret[1].meta.c = 0)
          /\ \A j \in 1..(N - 1) :
               \/ /\ ret[j + 1].meta.wedgeIndex = ret[j].meta.wedgeIndex
                  /\ RowMajorNext(ret[j], ret[j + 1])
               \/ /\ ret[j + 1].meta.wedgeIndex > ret[j].meta.wedgeIndex
                  /\ ret[j + 1].meta.r = 0
                  /\ ret[j + 1].meta.c = 0
          /\ (args.isOffset =>
                /\ Len(ret) = 2 * N
                /\ \A j \in 1..N :
                     /\ ret[N + j].meta.wedgeIndex = ret[j].meta.wedgeIndex + 10000
                     /\ ret[N + j].meta.r = ret[j].meta.r
                     /\ ret[N + j].meta.c = ret[j].meta.c
                     /\ ret[N + j].meta.tileIndex = ret[j].meta.tileIndex)
          /\ (~ args.isOffset => Len(ret) = N)

\* An offset tiling of three wedges of three tiles each (m = 1, k = 3, n = 6,
\* two rows), followed by its nine reflected tiles.
C12_Witness ==
    /\ AfterTiling
    /\ args = [m |-> 1, k |-> 3, n |-> 6, rows |-> 2, isOffset |-> TRUE]
    /\ Len(ret) = 18
    /\ ret[4].meta.wedgeIndex = 1
    /\ ret[9].meta.c = 1
    /\ ret[10].meta.wedgeIndex = 10000

\* C17: whenever the boundary sequences stop early, generatePrototile,
\* generateWedge and generateTiling each return polygons whose first polygon
\* carries hasShortPeriod = true in its metadata.
C17_ShortPeriodFlagged ==
    ( /\ pc = "idle"
      /\ call \in {"generatePrototile", "generateWedge", "generateTiling"}
      /\ BuildLSeq(args.m, args.k).short
      /\ Len(ret) > 0 ) =>
      /\ "hasShortPeriod" \in DOMAIN ret[1].meta
      /\ ret[1].meta.hasShortPeriod

\* ----------------------------------------------------------------------
\* getColorIndex as a function of (r, c, wedgeIndex), this.currentParams and
\* TILING_CONFIG.colorCount
\* ----------------------------------------------------------------------
MaxRC == 3

MaxWedgeIndex == 15

MaxColors == 4

\* Values of this.currentParams: unset, m = 0, set without a configuration
\* item, and the parameters of the configuration item.
ColorParams ==
    { [m |-> 0, k |-> 0, n |-> 0],
      [m |-> 0, k |-> 3, n |-> 3],
      [m |-> 1, k |-> 3, n |-> 6],
      [m |-> 3, k |-> 7, n |-> 14] }

ColorArgs == [ r : 0..MaxRC, c : 0..MaxRC, wedgeIndex : 0..MaxWedgeIndex ]

InitColor ==
    /\ polygons = << >>
    /\ palette = << >>
    /\ paletteType = "color"
    /\ currentParams \in ColorParams
    /\ colorCount \in 1..MaxColors
    /\ pc = "idle"
    /\ args \in ColorArgs
    /\ call = "none"
    /\ l_seq = << >>
    /\ u_seq = << >>
    /\ baseWedge = << >>
    /\ front_directions = << >>
    /\ i = 0
    /\ console = << >>
    /\ ret = << >>
    /\ OthersInit

CallGetColorIndex ==
    /\ pc = "idle"
    /\ call = "none"
    /\ call' = "getColorIndex"
    /\ ret' = getColorIndex(args.r, args.c, args.wedgeIndex, currentParams, colorCount)
    /\ UNCHANGED << polygons, palette, paletteType, currentParams, colorCount, pc, args,
                    l_seq, u_seq, baseWedge, front_directions, i, console >>
    /\ UNCHANGED others

NextColor == CallGetColorIndex

SpecColor == InitColor /\ [][NextColor]_vars

AfterColor == pc = "idle" /\ call = "getColorIndex"

ParamsSet == currentParams.m # 0 /\ currentParams.k # 0 /\ currentParams.n # 0

\* The configuration items whose params equal (colorCount, m, k, n).
MatchingItems ==
    { x \in 1..Len(ConfigWedges) :
        ConfigWedges[x].params = [c |-> colorCount, m |-> currentParams.m,
                                  k |-> currentParams.k, n |-> currentParams.n] }

\* C14: for colorCount > 0 the value getColorIndex returns is an integer of
\* 0 .. colorCount - 1, whatever (r, c, wedgeIndex) and whichever path is
\* taken: parameters unset, no matching configuration item, a matching item
\* with or without a rule for wedgeIndex, forward or reverse.
C14_ColorIndexRange ==
    (AfterColor /\ colorCount > 0) => ret \in 0..(colorCount - 1)

\* The configured reverse rule of wedge 3 (startColor 1) at (r, c) = (1, 1)
\* with three colours: base (3 - 2) mod 3 = 1, index 2.
C14_Witness ==
    /\ AfterColor
    /\ currentParams = [m |-> 3, k |-> 7, n |-> 14]
    /\ colorCount = 3
    /\ args = [r |-> 1, c |-> 1, wedgeIndex |-> 3]
    /\ ret = 2

\* (r + c) mod colorCount counted forward, or backward when reverse.
BaseIndex(reverse) ==
    IF reverse THEN (colorCount - ((args.r + args.c) % colorCount)) % colorCount
    ELSE (args.r + args.c) % colorCount

\* The first matching configuration item holds a rule for wedgeIndex.
HasRule ==
    /\ MatchingItems # {}
    /\ args.wedgeIndex \in DOMAIN ConfigWedges[Least(MatchingItems)].rules

PaletteTypes == {"color", "gray"}

\* Colour counts of the fill modes: fewer than, as many as and more than the
\* initial TILING_CONFIG.colorCount.
FillCounts == {1, InitialColorCount, InitialColorCount + 1}

\* Arguments the page can produce (gcd(m, k) = 1, n = k*t or 2*(t*k - m)),
\* the configured (3, 7, 14) among them, and one pair with gcd(m, k) > 1.
PaletteArgs ==
    { [m |-> 1, k |-> 3, n |-> 3, rows |-> 0, isOffset |-> FALSE],
      [m |-> 1, k |-> 3, n |-> 3, rows |-> 2, isOffset |-> FALSE],
      [m |-> 1, k |-> 3, n |-> 4, rows |-> 2, isOffset |-> TRUE],
      [m |-> 2, k |-> 4, n |-> 4, rows |-> 1, isOffset |-> FALSE],
      [m |-> 3, k |-> 7, n |-> 14, rows |-> 1, isOffset |-> FALSE] }

InitPalette ==
    /\ polygons = << >>
    /\ palette = << >>
    /\ paletteType = "color"
    /\ currentParams = [m |-> 0, k |-> 0, n |-> 0]
    /\ colorCount = InitialColorCount
    /\ pc = "idle"
    /\ args \in PaletteArgs
    /\ call = "none"
    /\ l_seq = << >>
    /\ u_seq = << >>
    /\ baseWedge = << >>
    /\ front_directions = << >>
    /\ i = 0
    /\ console = << >>
    /\ ret = << >>
    /\ OthersInit

\* The fill-mode part of updateTiling: TILING_CONFIG.colorCount = count;
\* generator.generatePalette(count, type).
UpdateFillMode ==
    /\ pc = "idle"
    /\ \E count \in FillCounts, type \in PaletteTypes :
         /\ colorCount' = count
         /\ palette' = generatePalette(count, type)
         /\ paletteType' = type
    /\ call' = "generatePalette"
    /\ UNCHANGED << polygons, currentParams, pc, args, l_seq, u_seq, baseWedge,
                    front_directions, i, console, ret >>
    /\ UNCHANGED others

\* generatePalette(count, type) called on its own: the palette and the
\* stored type change, TILING_CONFIG.colorCount does not.
CallGeneratePalette ==
    /\ pc = "idle"
    /\ \E count \in FillCounts, type \in PaletteTypes :
         /\ palette' = generatePalette(count, type)
         /\ paletteType' = type
    /\ call' = "generatePalette"
    /\ UNCHANGED << polygons, currentParams, colorCount, pc, args, l_seq, u_seq,
                    baseWedge, front_directions, i, console, ret >>
    /\ UNCHANGED others

NextPalette ==
    \/ UpdateFillMode
    \/ CallGeneratePalette
    \/ CallGenerateWedge
    \/ GenerateTilingBegin
    \/ PlaceWedge
    \/ SkipWedge
    \/ GenerateTilingEnd

SpecPalette == InitPalette /\ [][NextPalette]_vars

\* C18: after every generateWedge or generateTiling call, whatever
\* generatePalette calls and colour-count changes came before it, the palette
\* holds exactly TILING_CONFIG.colorCount entries and the colour of every
\* returned primary tile is the palette entry at getColorIndex(r, c,
\* wedgeIndex), which is an entry of the palette and not undefined.
C18_PaletteRecomputed ==
    (AfterWedge \/ AfterTiling) =>
      /\ Len(palette) = colorCount
      /\ \A j \in 1..Len(ret) :
           IsPrimary(ret[j]) =>
             LET idx == getColorIndex(ret[j].meta.r, ret[j].meta.c, ret[j].meta.wedgeIndex,
                                      currentParams, colorCount)
             IN  /\ idx + 1 \in 1..Len(palette)
                 /\ ret[j].color = palette[idx + 1]
                 /\ ret[j].color # Undefined

\* A tiling of three wedges of three tiles generated with four grays after
\* the colour count was raised from 3 to 4.
C18_Witness ==
    /\ AfterTiling
    /\ colorCount = 4
    /\ paletteType = "gray"
    /\ Len(palette) = 4
    /\ Len(ret) = 9
    /\ ret[2].color = palette[2]
    /\ ret[4].color = palette[2]

\* ----------------------------------------------------------------------
\* A caller making generator calls with changing arguments
\* ----------------------------------------------------------------------
\* Argument tuples with equal and different k, with and without offset, and
\* one with gcd(m, k) > 1.
CallerArgs ==
    { [m |-> 1, k |-> 3, n |-> 3, rows |-> 2, isOffset |-> FALSE],
      [m |-> 2, k |-> 3, n |-> 4, rows |-> 1, isOffset |-> TRUE],
      [m |-> 2, k |-> 4, n |-> 4, rows |-> 1, isOffset |-> FALSE] }

InitCaller ==
    /\ polygons = << >>
    /\ palette = << >>
    /\ paletteType = "color"
    /\ currentParams = [m |-> 0, k |-> 0, n |-> 0]
    /\ colorCount = InitialColorCount
    /\ pc = "idle"
    /\ args \in CallerArgs
    /\ call = "none"
    /\ l_seq = << >>
    /\ u_seq = << >>
    /\ baseWedge = << >>
    /\ front_directions = << >>
    /\ i = 0
    /\ console = << >>
    /\ ret = << >>
    /\ OthersInit

\* The caller takes other arguments for its next calls (and drops the value
\* the last call returned, if it has not kept it).
ChooseArgs ==
    /\ pc = "idle"
    /\ args' \in CallerArgs \ {args}
    /\ call' = "none"
    /\ UNCHANGED << polygons, palette, paletteType, currentParams, colorCount, pc,
                    l_seq, u_seq, baseWedge, front_directions, i, console, ret, others >>

\* The caller keeps the list generateTiling has just returned, with the
\* arguments it was called with.
KeepResult ==
    /\ pc = "idle"
    /\ call = "generateTiling"
    /\ kept' = kept \cup { [args |-> args, ret |-> ret] }
    /\ call' = "none"
    /\ UNCHANGED << polygons, palette, paletteType, currentParams, colorCount, pc, args,
                    l_seq, u_seq, baseWedge, front_directions, i, console, ret,
                    inputs, statusText, timers, running, displayed, events,
                    modePreferences, currentMode, pending, chosen,
                    renderer, touches, touchEvents >>

NextCaller ==
    \/ ChooseArgs
    \/ KeepResult
    \/ CallGeneratePrototile
    \/ CallGenerateWedge
    \/ GenerateTilingBegin
    \/ PlaceWedge
    \/ SkipWedge
    \/ GenerateTilingEnd

SpecCaller == InitCaller /\ [][NextCaller]_vars

\* C13: the list a generateTiling call returns is the list every earlier
\* generateTiling call with the same (m, k, n, rows, isOffset) returned -
\* same length, order, paths and metadata - whatever generatePrototile,
\* generateWedge and generateTiling calls with these or other arguments were
\* made before or between the two; every call starts its loop with the front
\* rebuilt from U, whatever front the call before left.
C13_Deterministic ==
    /\ AfterTiling => \A e \in kept : e.args = args => e.ret = ret
    /\ \A e, f \in kept : e.args = f.args => e.ret = f.ret
    /\ (pc = "loop" /\ i = 1) =>
         /\ u_seq = BuildUSeq(args.m, args.k).seq
         /\ front_directions = InitialFront(u_seq)

\* generateTiling has returned for the second time with arguments whose first
\* result was kept, after a tiling with other arguments was generated and
\* kept as well.
C13_Witness ==
    /\ AfterTiling
    /\ Len(ret) = 9
    /\ [args |-> args, ret |-> ret] \in kept
    /\ \E e \in kept : e.args # args /\ Len(e.ret) > 0

\* ----------------------------------------------------------------------
\* The page: updateTiling, its listeners and its setTimeout callbacks
\* ----------------------------------------------------------------------
MaxEvents == 3

Modes == {"prototile", "wedge", "tiling"}

Targets == {"m", "k", "t", "isOffset", "mode", "fill"}

\* Values an input event can give each element.
InputValues(target) ==
    CASE target = "m"        -> {1, 2}
      [] target = "k"        -> {2, 3}
      [] target = "t"        -> {1, 2}
      [] target = "isOffset" -> BOOLEAN
      [] target = "mode"     -> Modes
      [] target = "fill"     -> {"none", "3-color", "4-gray"}

\* fillMode.split('-'): parseInt(parts[0]) and parts[1]
FillCount(fill) == IF fill = "3-color" THEN 3 ELSE 4

FillType(fill) == IF fill = "3-color" THEN "color" ELSE "gray"

\* while (gcd(m, k) !== 1) k++
RECURSIVE CoprimeK(_, _)
CoprimeK(m, k) == IF gcd(m, k) = 1 THEN k ELSE CoprimeK(m, k + 1)

\* AdjustedK without "Enforce m < k".
AdjustedKNoOrder(inp, target) == CoprimeK(inp.m, inp.k)

\* k after "Enforce m < k" (only when the event's target is inputM or inputK)
\* and "Enforce gcd(m, k) = 1".
AdjustedK(inp, target) ==
    CoprimeK(inp.m, IF target \in {"m", "k"} /\ inp.m >= inp.k THEN inp.m + 1 ELSE inp.k)

\* n = isOffset ? 2 * (t * k - m) : k * t
ParameterN(m, k, t, isOffset) == IF isOffset THEN 2 * (t * k - m) ELSE k * t

ErrorStatus == [text |-> "Error: n (k*t) must be >= k", color |-> "#ff6b6b"]

GeneratingStatus(mode) ==
    [ text  |-> IF mode = "wedge" THEN "Generating Wedge..." ELSE "Generating Prototile...",
      color |-> "#8b949e" ]

\* UpdateTiling without the n < k validation.
UpdateTilingNoValidation(inp, target) ==
    LET k == AdjustedK(inp, target)
        n == ParameterN(inp.m, k, inp.t, inp.isOffset)
    IN  [ inputs   |-> [inp EXCEPT !.k = k],
          request  |-> [ m |-> inp.m, k |-> k, n |-> n, rows |-> inp.rows,
                         isOffset |-> inp.isOffset, mode |-> inp.mode ],
          schedule |-> TRUE,
          status   |-> GeneratingStatus(inp.mode) ]

\* updateTiling(e) up to setTimeout: the value written back to inputK, the
\* parameters the callback closes over, whether a callback is scheduled, and
\* the status shown.
UpdateTiling(inp, target) ==
    LET k == AdjustedK(inp, target)
        n == ParameterN(inp.m, k, inp.t, inp.isOffset)
    IN  [ inputs   |-> [inp EXCEPT !.k = k],
          request  |-> [ m |-> inp.m, k |-> k, n |-> n, rows |-> inp.rows,
                         isOffset |-> inp.isOffset, mode |-> inp.mode ],
          schedule |-> ~ (n < k),
          status   |-> IF n < k THEN ErrorStatus ELSE GeneratingStatus(inp.mode) ]

\* The parameters updateTiling computes from the input values as they stand.
CurrentRequest == UpdateTiling(inputs, "none").request

\* The effect of the updateTiling(e) call of a listener on the page and on
\* the generator.  A scheduled callback is kept with the number of the call
\* that scheduled it, the element the event came from ("none" for a call
\* without an event) and the colour count then in force.
HandleUpdate(inp, target) ==
    LET u == UpdateTiling(inp, target)
        count == IF inp.fill = "none" THEN colorCount ELSE FillCount(inp.fill)
    IN  /\ inputs' = u.inputs
        /\ IF inp.fill = "none"
           THEN UNCHANGED << colorCount, palette, paletteType >>
           ELSE /\ colorCount' = count
                /\ palette' = generatePalette(count, FillType(inp.fill))
                /\ paletteType' = FillType(inp.fill)
        /\ statusText' = u.status
        /\ timers' = IF u.schedule
                     THEN Append(timers, [ request    |-> u.request,
                                           event      |-> events + 1,
                                           target     |-> target,
                                           colorCount |-> count ])
                     ELSE timers
        /\ events' = events + 1
        /\ UNCHANGED << polygons, currentParams, pc, args, call, l_seq, u_seq, baseWedge,
                        front_directions, i, console, ret, kept, running, displayed >>

PageIdle == pc = "idle" /\ running = None

\* updateTiling() with no event: the initial draw, and the debounced resize
\* handler afterwards.
InitialDrawOrResize ==
    /\ PageIdle
    /\ events < MaxEvents
    /\ HandleUpdate(inputs, "none")
    /\ UNCHANGED << modePreferences, currentMode, pending, chosen,
                    renderer, touches, touchEvents >>

\* An 'input' event: the element has its new value, updateTiling(e) runs.
InputEvent ==
    /\ PageIdle
    /\ 0 < events
    /\ events < MaxEvents
    /\ \E target \in Targets :
         \E value \in InputValues(target) \ {inputs[target]} :
           HandleUpdate([inputs EXCEPT ![target] = value], target)
    /\ UNCHANGED << modePreferences, currentMode, pending, chosen,
                    renderer, touches, touchEvents >>

\* inputMode's 'change' listener, "Apply pref for new mode": the controls
\* take the values remembered for newMode.
ApplyPreference(inp, prefs, newMode) ==
    [inp EXCEPT !.showTiles = prefs[newMode].showTiles,
                !.fill = prefs[newMode].fillMode]

\* inputShowTiles' 'change' listener
RememberShowTiles(prefs, mode, checked) == [prefs EXCEPT ![mode].showTiles = checked]

\* RememberFillMode writing the value for every mode.
RememberFillModeGlobal(prefs, mode, value) ==
    [ other \in DOMAIN prefs |-> [prefs[other] EXCEPT !.fillMode = value] ]

\* inputFillMode's 'change' listener
RememberFillMode(prefs, mode, value) == [prefs EXCEPT ![mode].fillMode = value]

\* A 'change' event: the listeners of inputMode, inputShowTiles and
\* inputFillMode run first (the controls take the preference of the new
\* mode; the preference of currentMode is set to the value chosen), then
\* updateTiling(e).
ChangeListeners(target) ==
    /\ HandleUpdate(IF target = "mode"
                    THEN ApplyPreference(inputs, modePreferences, inputs.mode)
                    ELSE inputs, target)
    /\ currentMode' = IF target = "mode" THEN inputs.mode ELSE currentMode
    /\ modePreferences' =
         CASE target = "fill" -> RememberFillMode(modePreferences, currentMode, inputs.fill)
           [] target = "showTiles" ->
                RememberShowTiles(modePreferences, currentMode, inputs.showTiles)
           [] OTHER -> modePreferences

ChangeEvent ==
    /\ PageIdle
    /\ 0 < events
    /\ events < MaxEvents
    /\ \E target \in Targets : ChangeListeners(target)
    /\ UNCHANGED << pending, chosen, renderer, touches, touchEvents >>

\* The oldest pending callback starts (all timers have the same delay, so
\* they fire in the order they were set; none is ever cleared).
TimerStart ==
    /\ PageIdle
    /\ Len(timers) > 0
    /\ running' = Head(timers)
    /\ timers' = Tail(timers)
    /\ args' = [ m |-> Head(timers).request.m, k |-> Head(timers).request.k,
                 n |-> Head(timers).request.n, rows |-> Head(timers).request.rows,
                 isOffset |-> Head(timers).request.isOffset ]
    /\ call' = "none"
    /\ UNCHANGED << polygons, palette, paletteType, currentParams, colorCount, pc,
                    l_seq, u_seq, baseWedge, front_directions, i, console, ret,
                    kept, inputs, statusText, displayed, events,
                    modePreferences, currentMode, pending, chosen,
                    renderer, touches, touchEvents >>

InCallback(mode) == running # None /\ running.request.mode = mode /\ call = "none"

\* mode === 'wedge': generator.generateWedge(m, k, n, rows)
TimerGenerateWedge == InCallback("wedge") /\ CallGenerateWedge

\* mode === 'tiling': generator.generateTiling(m, k, n, rows, isOffset)
TimerGenerateTiling == InCallback("tiling") /\ GenerateTilingBegin

\* otherwise: generator.generatePrototile(m, k, n)
TimerGeneratePrototile == InCallback("prototile") /\ CallGeneratePrototile

\* The status line of a finished generation.
DoneStatus(request, polys) ==
    [ text  |-> << request.m, request.k, request.n, request.mode >>,
      color |-> IF /\ Len(polys) > 0
                   /\ "hasShortPeriod" \in DOMAIN polys[1].meta
                   /\ polys[1].meta.hasShortPeriod
                THEN "#ff6b6b" ELSE "#8b949e" ]

\* The rest of the callback once the generator has returned:
\* renderer.setDisplayData(polygons, mode) and the status line.  With what
\* the renderer is given are kept the call that scheduled the callback, the
\* number of calls handled by now, the parameters of the newest of them, and
\* the colour counts at scheduling time and at generation time.
TimerFinish ==
    /\ running # None
    /\ pc = "idle"
    /\ call # "none"
    /\ displayed' = [ polygons   |-> ret,
                      mode       |-> running.request.mode,
                      request    |-> running.request,
                      event      |-> running.event,
                      handled    |-> events,
                      newest     |-> CurrentRequest,
                      colorCount |-> running.colorCount,
                      colorUsed  |-> colorCount ]
    /\ statusText' = DoneStatus(running.request, ret)
    /\ running' = None
    /\ UNCHANGED << polygons, palette, paletteType, currentParams, colorCount, pc, args,
                    call, l_seq, u_seq, baseWedge, front_directions, i, console, ret,
                    kept, inputs, timers, events, modePreferences, currentMode, pending, chosen,
                    renderer, touches, touchEvents >>

InitPage ==
    /\ polygons = << >>
    /\ palette = << >>
    /\ paletteType = "color"
    /\ currentParams = [m |-> 0, k |-> 0, n |-> 0]
    /\ colorCount = InitialColorCount
    /\ pc = "idle"
    /\ args = [m |-> 0, k |-> 0, n |-> 0, rows |-> 0, isOffset |-> FALSE]
    /\ call = "none"
    /\ l_seq = << >>
    /\ u_seq = << >>
    /\ baseWedge = << >>
    /\ front_directions = << >>
    /\ i = 0
    /\ console = << >>
    /\ ret = << >>
    /\ OthersInit

\* The generator's loop steps run inside the callback.  With gcd(m, k) = 1,
\* which updateTiling enforces, every wedge of the loop is placed.
NextPage ==
    \/ InitialDrawOrResize
    \/ InputEvent
    \/ ChangeEvent
    \/ TimerStart
    \/ TimerGeneratePrototile
    \/ TimerGenerateWedge
    \/ TimerGenerateTiling
    \/ PlaceWedge
    \/ GenerateTilingEnd
    \/ TimerFinish

SpecPage == InitPage /\ [][NextPage]_vars

\* No wedge is skipped in a tiling the page asks for.
PageNeverSkips ==
    (pc = "loop" /\ InLoop(i, args.n, args.isOffset)) => FindJStar(front_directions, i) # 0

\* C19: whatever is passed to renderer.setDisplayData was generated from the
\* parameters of the newest updateTiling call handled by then, never from
\* those of an older request, and was generated under the colour count of
\* the request that scheduled the generation.
C19_Supersedes ==
    displayed # None =>
      /\ displayed.request = displayed.newest
      /\ displayed.colorUsed = displayed.colorCount

\* The page's n < k validation, for every callback pending or running, every
\* generator call in progress and everything the renderer was given.
ValidatedEverywhere ==
    /\ \A j \in 1..Len(timers) : timers[j].request.n >= timers[j].request.k
    /\ (running # None => running.request.n >= running.request.k)
    /\ ((running # None \/ pc = "loop") => args.n >= args.k)
    /\ (displayed # None => displayed.request.n >= displayed.request.k)

\* An updateTiling call whose parameters give n < k shows the validation
\* error and schedules nothing.
RejectsWithoutScheduling ==
    (events' = events + 1 /\ CurrentRequest'.n < CurrentRequest'.k) =>
      /\ statusText' = ErrorStatus
      /\ timers' = timers
      /\ running' = running
      /\ displayed' = displayed

\* C20: when the input values give n < k (n = k*t, or 2*(t*k - m) in offset
\* mode) updateTiling shows the validation error and returns without
\* scheduling a generation: no callback is pending or run, no generator
\* entry point is called and nothing is given to the renderer with n < k.
C20_RejectsNLessThanK == [] ValidatedEverywhere /\ [][RejectsWithoutScheduling]_vars

\* The third updateTiling call was made with m = 2, k = 3, t = 1 in offset
\* mode, n = 2 < 3: the error is shown and no callback is pending.
C20_Witness ==
    /\ events = 3
    /\ inputs.m = 2
    /\ inputs.k = 3
    /\ inputs.isOffset
    /\ CurrentRequest.n = 2
    /\ statusText = ErrorStatus
    /\ timers = << >>
    /\ running = None
    /\ displayed # None

\* ----------------------------------------------------------------------
\* generateTiling for large n, as one step and with every polygon reduced to
\* its meta.  The loop reads front_directions, i, k, n and isOffset only;
\* paths, colours and console lines are left out.
\* ----------------------------------------------------------------------
LargeN == 20002

\* Small and large n, among them n = 2 * (t*k - m) with (m, k, t) =
\* (1, 2, 5001) in offset mode.
LargeArgs ==
    [ m : 1..3, k : 2..4, n : {4, 6, LargeN - 2, LargeN}, rows : {1},
      isOffset : BOOLEAN ]

InitLarge ==
    /\ polygons = << >>
    /\ palette = << >>
    /\ paletteType = "color"
    /\ currentParams = [m |-> 0, k |-> 0, n |-> 0]
    /\ colorCount = InitialColorCount
    /\ pc = "idle"
    /\ args \in LargeArgs
    /\ call = "none"
    /\ l_seq = << >>
    /\ u_seq = << >>
    /\ baseWedge = << >>
    /\ front_directions = << >>
    /\ i = 0
    /\ console = << >>
    /\ ret = << >>
    /\ OthersInit

\* The meta of the tiles of generateWedge: rows r = 0 .. rows - 1, columns
\* c = 0 .. r, tileIndex counting up.
RECURSIVE WedgeMeta(_, _, _, _)
WedgeMeta(r, c, rows, acc) ==
    IF r >= rows THEN acc
    ELSE IF c > r THEN WedgeMeta(r + 1, 0, rows, acc)
    ELSE WedgeMeta(r, c + 1, rows,
                   Append(acc, [meta |-> [wedgeIndex |-> 0, tileIndex |-> Len(acc),
                                          r |-> r, c |-> c]]))

\* addTransformedWedge on metas: meta = { ...p.meta, wedgeIndex: rotationIndex }
IndexedWedge(polys, rotationIndex) ==
    [t \in 1..Len(polys) |-> [meta |-> [polys[t].meta EXCEPT !.wedgeIndex = rotationIndex]]]

\* The offset copy on metas: wedgeIndex + 10000, isCopy: true.
ReflectedMeta(p) ==
    [meta |-> [ wedgeIndex |-> p.meta.wedgeIndex + 10000,
                tileIndex  |-> p.meta.tileIndex,
                r          |-> p.meta.r,
                c          |-> p.meta.c,
                isCopy     |-> TRUE ]]

\* One iteration of the for loop: find j_star; when there is one, push the
\* wedge with index idx and replace the front entry by idx + k.
LoopStep(st, idx, base, k) ==
    LET jStar == FindJStar(st.front, idx)
    IN  IF jStar = 0 THEN st
        ELSE [ front    |-> UpdateFront(st.front, jStar, idx, k),
               polygons |-> st.polygons \o IndexedWedge(base, idx) ]

\* The iterations from <= i < to, in order (evaluated in halves, each on the
\* computed value of the one before, to bound the depth of the evaluation).
RECURSIVE LoopRange(_, _, _, _, _)
LoopRange(st, from, to, base, k) ==
    IF from >= to \/ Len(st.front) = 0 THEN st
    ELSE IF to = from + 1 THEN LoopStep(st, from, base, k)
    ELSE LoopRange(LoopRange(st, from, (from + to) \div 2, base, k),
                   (from + to) \div 2, to, base, k)

\* The first i at which the loop test i < w_limit fails.
LoopEnd(n, isOffset) ==
    CHOOSE e \in 1..(n + 1) : ~ InLoop(e, n, isOffset) /\ (e = 1 \/ InLoop(e - 1, n, isOffset))

\* generateTiling(m, k, n, rows, isOffset) on metas, the whole call.
generateTilingMeta(m, k, n, rows, isOffset) ==
    LET base == WedgeMeta(0, 0, rows, << >>)
        st == LoopRange([ front    |-> InitialFront(BuildUSeq(m, k).seq),
                          polygons |-> IndexedWedge(base, 0) ],
                        1, LoopEnd(n, isOffset), base, k)
    IN  IF Len(base) = 0 THEN << >>
        ELSE IF isOffset
        THEN st.polygons \o [t \in 1..Len(st.polygons) |-> ReflectedMeta(st.polygons[t])]
        ELSE st.polygons

CallGenerateTilingMeta ==
    /\ pc = "idle"
    /\ call = "none"
    /\ call' = "generateTiling"
    /\ currentParams' = [m |-> args.m, k |-> args.k, n |-> args.n]
    /\ ret' = generateTilingMeta(args.m, args.k, args.n, args.rows, args.isOffset)
    /\ polygons' = ret'
    /\ UNCHANGED << palette, paletteType, colorCount, pc, args, l_seq, u_seq, baseWedge,
                    front_directions, i, console >>
    /\ UNCHANGED others

NextLarge == CallGenerateTilingMeta

SpecLarge == InitLarge /\ [][NextLarge]_vars

PrimaryWedgeIndices == { ret[j].meta.wedgeIndex : j \in { t \in 1..Len(ret) : IsPrimary(ret[t]) } }

ReflectedWedgeIndices ==
    { ret[j].meta.wedgeIndex : j \in { t \in 1..Len(ret) : ~ IsPrimary(ret[t]) } }

\* C11: in the list an offset-mode generateTiling returns, no reflected tile
\* has the wedgeIndex of a primary tile, so that grouping the tiles by
\* wedgeIndex keeps reflected and original tiles apart.
C11_ReflectedIndexDistinct ==
    (AfterTiling /\ args.isOffset) => PrimaryWedgeIndices \cap ReflectedWedgeIndices = {}

\* The entries of the front, as a set.
FrontSet == { front_directions[j] : j \in 1..Len(front_directions) }

\* C24: for m >= 1 and k >= 1, before step i of the placement loop the front
\* holds exactly the multiples of gcd(m, k) in [i, i + k - 1]; wedge i finds a
\* match exactly when gcd(m, k) divides i; with gcd(m, k) = 1 no wedge is
\* skipped, in offset mode or not, and a warning is logged only for
\* short-period parameters.
C24_MatchIffDivides ==
    (pc = "loop" /\ args.m >= 1) =>
      LET g == gcd(args.m, args.k)
      IN  /\ FrontSet = { x \in i..(i + args.k - 1) : x % g = 0 }
          /\ (InLoop(i, args.n, args.isOffset) =>
                (FindJStar(front_directions, i) # 0 <=> i % g = 0))
          /\ \A e \in 1..Len(console) :
               console[e].level = "warn" =>
                 /\ console[e].wedge % g # 0
                 /\ g > 1
                 /\ BuildUSeq(args.m, args.k).short

\* m = 2, k = 4: wedge 1 was skipped with a warning, wedge 2 placed, and the
\* front before step 3 is <<4, 6>>.
C24_Witness ==
    /\ pc = "loop"
    /\ args.m = 2
    /\ args.k = 4
    /\ i = 3
    /\ front_directions = << 4, 6 >>
    /\ \E e \in 1..Len(console) : console[e].level = "warn" /\ console[e].wedge = 1

\* A loop step keeps the length of the front and changes at most one entry.
FrontStep ==
    pc = "loop" =>
      /\ Len(front_directions') = Len(front_directions)
      /\ Cardinality({ j \in 1..Len(front_directions) :
                         front_directions'[j] # front_directions[j] }) <= 1

\* In the loop the front has |U| - 1 entries, pairwise distinct.
FrontShape ==
    pc = "loop" =>
      /\ Len(front_directions) = Len(u_seq) - 1
      /\ Cardinality(FrontSet) = Len(front_directions)
      /\ Cardinality({ j \in 1..Len(front_directions) : front_directions[j] = i }) <= 1

\* C25: in every state of the placement loop the front has the length it was
\* initialised with, |U| - 1, and pairwise distinct entries, so at most one
\* index matches i; each loop step changes at most one entry of the front.
C25_FrontShape == [] FrontShape /\ [][FrontStep]_vars

\* A front of three distinct entries after two placements (m = 1, k = 3).
C25_Witness ==
    /\ pc = "loop"
    /\ args.m = 1
    /\ args.k = 3
    /\ i = 3
    /\ Len(u_seq) = 4
    /\ front_directions = << 3, 4, 5 >>

\* C26: during and after generateTiling every primary tile of the list is
\* the copy of the base-wedge tile with its tileIndex: same r and c, same
\* number of vertices; its wedgeIndex is the index i of the wedge it was
\* placed with (the tiles of wedge i sit at the i-th block of placed wedges),
\* and its colour is the palette entry at getColorIndex(r, c, i), computed
\* anew and not taken from the base wedge.
C26_PlacedTile ==
    (call = "generateTiling" /\ Len(baseWedge) > 0) =>
      \A j \in 1..Len(polygons) :
        IsPrimary(polygons[j]) =>
          LET p == polygons[j]
              b == baseWedge[p.meta.tileIndex + 1]
          IN  /\ p.meta.tileIndex = (j - 1) % Len(baseWedge)
              /\ p.meta.r = b.meta.r
              /\ p.meta.c = b.meta.c
              /\ Len(p.path) = Len(b.path)
              /\ b.meta.wedgeIndex = 0
              /\ p.meta.wedgeIndex \in 0..(i - 1)
              /\ \/ p.meta.wedgeIndex = 0
                 \/ \E e \in Attempts(p.meta.wedgeIndex) : console[e].j_star >= 0
              /\ p.color = PaletteAt(palette,
                                     getColorIndex(p.meta.r, p.meta.c, p.meta.wedgeIndex,
                                                   currentParams, colorCount))

\* Wedge 1 of a tiling with m = 1, k = 3 and two rows: its tile (1, 0) has
\* colour index 0 where the base-wedge tile (1, 0) has colour index 1.
C26_Witness ==
    /\ AfterTiling
    /\ args.m = 1
    /\ args.k = 3
    /\ args.rows = 2
    /\ ~ args.isOffset
    /\ Len(polygons) >= 5
    /\ polygons[5].meta = [wedgeIndex |-> 1, tileIndex |-> 1, r |-> 1, c |-> 0]
    /\ polygons[5].color = palette[1]
    /\ baseWedge[2].color = palette[2]

\* C27: with rows = 0 generateWedge returns the empty list and generateTiling
\* returns the empty list, in offset mode and without it, and the
\* generator's own list is empty (no wedge placed, no reflection added);
\* with rows >= 1 generateTiling never returns the empty list.
C27_EmptyForZeroRows ==
    /\ (AfterWedge /\ args.rows = 0) => (ret = << >> /\ polygons = << >>)
    /\ (call = "generateTiling" /\ args.rows = 0) =>
         (pc = "idle" /\ ret = << >> /\ polygons = << >> /\ baseWedge = << >>)
    /\ (AfterTiling /\ args.rows >= 1) => Len(ret) > 0

\* generateTiling has returned the empty list for rows = 0 in offset mode.
C27_Witness ==
    /\ AfterTiling
    /\ args.rows = 0
    /\ args.isOffset
    /\ ret = << >>
    /\ polygons = << >>

\* Every scheduled callback has run.
PageQuiet == events > 0 /\ timers = << >> /\ running = None /\ pc = "idle"

\* C29: once every scheduled callback has run, what is shown belongs to the
\* newest updateTiling call: if its parameters are valid the renderer holds
\* the polygons generated from them in its mode and the status names them;
\* if they give n < k the validation error is still the status shown.
C29_NewestShown ==
    PageQuiet =>
      IF CurrentRequest.n >= CurrentRequest.k
      THEN /\ displayed # None
           /\ displayed.request = CurrentRequest
           /\ displayed.mode = CurrentRequest.mode
           /\ statusText = DoneStatus(CurrentRequest, displayed.polygons)
      ELSE statusText = ErrorStatus

\* ----------------------------------------------------------------------
\* updateTiling's adjustment of k, for every pair of slider values
\* ----------------------------------------------------------------------
MaxSlider == 6

\* The values of the m, k and t sliders and of the offset checkbox when an
\* event arrives; the mode is 'prototile'.
InitAdjust ==
    /\ polygons = << >>
    /\ palette = << >>
    /\ paletteType = "color"
    /\ currentParams = [m |-> 0, k |-> 0, n |-> 0]
    /\ colorCount = InitialColorCount
    /\ pc = "idle"
    /\ args = [m |-> 0, k |-> 0, n |-> 0, rows |-> 0, isOffset |-> FALSE]
    /\ call = "none"
    /\ l_seq = << >>
    /\ u_seq = << >>
    /\ baseWedge = << >>
    /\ front_directions = << >>
    /\ i = 0
    /\ console = << >>
    /\ ret = << >>
    /\ kept = {}
    /\ \E m \in 1..MaxSlider, k \in 1..MaxSlider, t \in 1..2, isOffset \in BOOLEAN :
         inputs = [DefaultInputs EXCEPT !.m = m, !.k = k, !.t = t,
                                        !.isOffset = isOffset, !.mode = "prototile"]
    /\ statusText = ""
    /\ timers = << >>
    /\ running = None
    /\ displayed = None
    /\ events = 0
    /\ modePreferences = DefaultPreferences
    /\ currentMode = "prototile"
    /\ pending = "none"
    /\ chosen = DefaultPreferences
    /\ renderer = RendererInit
    /\ touches = << >>
    /\ touchEvents = 0

\* updateTiling(e) for an event from any of the elements, or with no event.
AdjustEvent ==
    /\ PageIdle
    /\ events = 0
    /\ \E target \in Targets \cup {"none"} : HandleUpdate(inputs, target)
    /\ UNCHANGED << modePreferences, currentMode, pending, chosen,
                    renderer, touches, touchEvents >>

NextAdjust ==
    \/ AdjustEvent
    \/ TimerStart
    \/ TimerGeneratePrototile
    \/ TimerFinish

SpecAdjust == InitAdjust /\ [][NextAdjust]_vars

\* The parameters a callback closes over are coprime, and have m < k when the
\* event came from the m or the k control.
RequestAdjusted(entry) ==
    /\ entry.request.m >= 1
    /\ gcd(entry.request.m, entry.request.k) = 1
    /\ (entry.target \in {"m", "k"} => entry.request.m < entry.request.k)

\* Every callback pending or running, every generator call made and
\* everything displayed has gcd(m, k) = 1, and no prototile generated is
\* flagged short-period.
AdjustedEverywhere ==
    /\ \A j \in 1..Len(timers) : RequestAdjusted(timers[j])
    /\ (running # None => /\ RequestAdjusted(running)
                          /\ args.m = running.request.m
                          /\ args.k = running.request.k
                          /\ gcd(args.m, args.k) = 1)
    /\ (displayed # None =>
          /\ gcd(displayed.request.m, displayed.request.k) = 1
          /\ Len(displayed.polygons) > 0
          /\ ~ displayed.polygons[1].meta.hasShortPeriod)

\* An updateTiling call leaves m alone and raises k to the least value, not
\* below the slider's value, that is coprime to m, within m steps; the
\* callback it schedules closes over this k.
RaisesKToLeastCoprime ==
    (events' = events + 1) =>
      /\ inputs' = [inputs EXCEPT !.k = inputs'.k]
      /\ inputs'.k >= inputs.k
      /\ gcd(inputs.m, inputs'.k) = 1
      /\ (Len(timers') > Len(timers) =>
            LET entry == timers'[Len(timers')]
                start == IF entry.target \in {"m", "k"} /\ inputs.m >= inputs.k
                         THEN inputs.m + 1 ELSE inputs.k
            IN  /\ entry.request.m = inputs.m
                /\ entry.request.k = inputs'.k
                /\ inputs'.k >= start
                /\ inputs'.k < start + inputs.m
                /\ \A y \in start..(inputs'.k - 1) : gcd(inputs.m, y) # 1)

\* C28: every generator call updateTiling makes uses gcd(m, k) = 1: for every
\* m >= 1 the loop ends, within m steps, at the smallest k not below the value
\* it started from that is coprime to m, no prototile generated is flagged
\* short-period, and after an event from the m or the k control the
\* parameters used have m < k.
C28_CoprimeEnforced == [] AdjustedEverywhere /\ [][RaisesKToLeastCoprime]_vars

\* The m slider was moved to 6 with k at 4: k was pushed to 7, past m + 1 = 7
\* being already coprime, and the prototile for (6, 7, 7) is displayed.
C28_Witness ==
    /\ displayed # None
    /\ displayed.request.m = 6
    /\ displayed.request.k = 7
    /\ inputs.k = 7
    /\ events = 1
    /\ Len(displayed.polygons) > 0

\* The k slider was left at 4 with m = 2 and the event came from the t
\* slider: k was raised to 5 by the coprimality loop alone.
C28_WitnessLoop ==
    /\ running # None
    /\ running.target = "t"
    /\ running.request.m = 2
    /\ running.request.k = 5
    /\ inputs.k = 5

\* ----------------------------------------------------------------------
\* Mode-specific preferences: the Tile Index checkbox and the Fill select
\* ----------------------------------------------------------------------
MaxPrefEvents == 9

PrefTargets == {"mode", "fill", "showTiles"}

\* Values the user can give the three controls.
PrefValues(target) == IF target = "showTiles" THEN BOOLEAN ELSE InputValues(target)

\* The script starts in whatever mode the select element shows, and applies
\* that mode's preference to the two controls ("Apply initial preference").
InitPrefs ==
    /\ polygons = << >>
    /\ palette = << >>
    /\ paletteType = "color"
    /\ currentParams = [m |-> 0, k |-> 0, n |-> 0]
    /\ colorCount = InitialColorCount
    /\ pc = "idle"
    /\ args = [m |-> 0, k |-> 0, n |-> 0, rows |-> 0, isOffset |-> FALSE]
    /\ call = "none"
    /\ l_seq = << >>
    /\ u_seq = << >>
    /\ baseWedge = << >>
    /\ front_directions = << >>
    /\ i = 0
    /\ console = << >>
    /\ ret = << >>
    /\ kept = {}
    /\ \E mode \in Modes :
         /\ inputs = ApplyPreference([DefaultInputs EXCEPT !.mode = mode],
                                     DefaultPreferences, mode)
         /\ currentMode = mode
    /\ statusText = ""
    /\ timers = << >>
    /\ running = None
    /\ displayed = None
    /\ events = 0
    /\ modePreferences = DefaultPreferences
    /\ pending = "none"
    /\ chosen = DefaultPreferences
    /\ renderer = RendererInit
    /\ touches = << >>
    /\ touchEvents = 0

\* updateTiling() at the end of the script.
PrefsInitialDraw ==
    /\ events = 0
    /\ HandleUpdate(inputs, "none")
    /\ UNCHANGED << modePreferences, currentMode, pending, chosen,
                    renderer, touches, touchEvents >>

\* The user gives one of the three controls another value: the element has
\* the value and its 'input' event runs updateTiling(e); its 'change' event
\* follows at once.        The value is noted as the user's last choice
\* for the mode current at that moment.
UserInput ==
    /\ pending = "none"
    /\ 0 < events
    /\ events + 1 < MaxPrefEvents
    /\ \E target \in PrefTargets :
         \E value \in PrefValues(target) \ {inputs[target]} :
           /\ HandleUpdate([inputs EXCEPT ![target] = value], target)
           /\ pending' = target
           /\ chosen' = CASE target = "fill" -> [chosen EXCEPT ![currentMode].fillMode = value]
                          [] target = "showTiles" ->
                               [chosen EXCEPT ![currentMode].showTiles = value]
                          [] OTHER -> chosen
    /\ UNCHANGED << modePreferences, currentMode, renderer, touches, touchEvents >>

\* The 'change' event of the same element: the preference listener, then
\* updateTiling(e).
UserChange ==
    /\ pending # "none"
    /\ ChangeListeners(pending)
    /\ pending' = "none"
    /\ UNCHANGED << chosen, renderer, touches, touchEvents >>

NextPrefs ==
    \/ PrefsInitialDraw
    \/ UserInput
    \/ UserChange

SpecPrefs == InitPrefs /\ [][NextPrefs]_vars

\* Between user actions the preferences are the user's last choices per
\* mode (the defaults where none was made), and the two controls show the
\* ones of the mode selected.
PreferencesAreLastChoices ==
    pending = "none" =>
      /\ modePreferences = chosen
      /\ currentMode = inputs.mode
      /\ inputs.showTiles = chosen[inputs.mode].showTiles
      /\ inputs.fill = chosen[inputs.mode].fillMode

\* No listener changes what is remembered for a mode other than the current
\* one, and a mode change changes nothing remembered.
OtherModesUntouched ==
    /\ \A mode \in Modes \ {currentMode} : modePreferences'[mode] = modePreferences[mode]
    /\ (pending = "mode" => modePreferences' = modePreferences)

\* C22: Tile Index and Fill are remembered per display mode: after any
\* sequence of mode changes and toggles the preferences are the values the
\* user last chose while each mode was current (its defaults if none),
\* a switch to a mode sets both controls to that mode's values, and a toggle
\* in one mode leaves what is remembered for the other modes unchanged.
C22_PerModePreferences == [] PreferencesAreLastChoices /\ [][OtherModesUntouched]_vars

\* In wedge mode the user chose Fill '4-gray', went to tiling, chose
\* '3-color' there, and came back to wedge: the 'change' event of the switch
\* back ran updateTiling with Fill '4-gray' and Tile Index ticked again, and
\* tiling still remembers '3-color'.
C22_Witness ==
    /\ pending = "none"
    /\ events = 9
    /\ Len(timers) = 9
    /\ timers[3].target = "fill" /\ timers[3].request.mode = "wedge"
    /\ timers[5].target = "mode" /\ timers[5].request.mode = "tiling"
    /\ timers[7].target = "fill" /\ timers[7].request.mode = "tiling"
    /\ timers[9].target = "mode" /\ timers[9].request.mode = "wedge"
    /\ currentMode = "wedge"
    /\ inputs.fill = "4-gray"
    /\ inputs.showTiles
    /\ modePreferences["wedge"] = [showTiles |-> TRUE, fillMode |-> "4-gray"]
    /\ modePreferences["tiling"] = [showTiles |-> FALSE, fillMode |-> "3-color"]
    /\ modePreferences["prototile"] = DefaultPreferences["prototile"]

\* ----------------------------------------------------------------------
\* Renderer.initEvents: the touch listeners of the canvas
\* ----------------------------------------------------------------------
MaxTouches == 3

MaxTouchEvents == 4

\* clientX / clientY of a touch
Positions == { [x |-> 2 * cx, y |-> 2 * cy] : cx \in 0..MaxCoord, cy \in 0..MaxCoord }

\* What handleMouseMove can find under a point: no polygon (-1), or the
\* wedgeIndex of the polygon found.
HoverValues == {-1, 0}

\* handleMouseMove(mx, my): only the hover state is written.
handleMouseMove(r, found) == [r EXCEPT !.hoveredWedgeIndex = found]

\* A fraction in lowest terms
Fraction(num, den) == LET g == gcd(num, den) IN [num |-> num \div g, den |-> den \div g]

\* Math.min(Math.max(0.1, scale * dist / lastPinchDist), 20), on squares
ZoomedScale2(scale2, dist2, lastPinchDist2) ==
    LET num == scale2.num * dist2
        den == scale2.den * lastPinchDist2
    IN  IF num * 100 <= den THEN [num |-> 1, den |-> 100]
        ELSE IF num >= 400 * den THEN [num |-> 400, den |-> 1]
        ELSE Fraction(num, den)

\* Midpoint and squared distance of the first two touches
MidX(tch) == (tch[1].x + tch[2].x) \div 2

MidY(tch) == (tch[1].y + tch[2].y) \div 2

Dist2(tch) ==
    (tch[2].x - tch[1].x) * (tch[2].x - tch[1].x) + (tch[2].y - tch[1].y) * (tch[2].y - tch[1].y)

\* handleTouch with the one-finger branch panning as a mouse drag does.
handleTouchOneFingerDrag(r, type, tch, found) ==
    IF Len(tch) = 1 /\ type = "touchmove"
    THEN [r EXCEPT !.offsetX = @ + (tch[1].x - r.lastX), !.offsetY = @ + (tch[1].y - r.lastY),
                   !.lastX = tch[1].x, !.lastY = tch[1].y, !.lastTouchCount = 1]
    ELSE [r EXCEPT !.lastTouchCount = Len(tch)]

\* handleTouch(e) for e.type in {touchstart, touchmove}, e.touches = tch
handleTouch(r, type, tch, found) ==
    IF Len(tch) = 1
    THEN [handleMouseMove(r, found) EXCEPT !.isDragging = FALSE, !.lastTouchCount = 1]
    ELSE IF Len(tch) = 2
    THEN LET cx == MidX(tch)
             cy == MidY(tch)
             dist2 == Dist2(tch)
             ref == IF r.lastTouchCount # 2
                    THEN [r EXCEPT !.lastX = cx, !.lastY = cy, !.lastPinchDist2 = dist2]
                    ELSE r
         IN  IF type = "touchmove"
             THEN [ref EXCEPT !.offsetX = @ + (cx - ref.lastX),
                              !.offsetY = @ + (cy - ref.lastY),
                              !.lastX = cx,
                              !.lastY = cy,
                              !.scale2 = IF ref.lastPinchDist2 > 0
                                         THEN ZoomedScale2(@, dist2, ref.lastPinchDist2)
                                         ELSE @,
                              !.lastPinchDist2 = dist2,
                              !.lastTouchCount = 2]
             ELSE [ref EXCEPT !.lastTouchCount = 2]
    ELSE [r EXCEPT !.lastTouchCount = Len(tch), !.isDragging = FALSE]

\* The 'touchend' listener, e.touches = tch
handleTouchEnd(r, tch) ==
    IF Len(tch) = 0
    THEN [r EXCEPT !.isDragging = FALSE, !.lastTouchCount = 0]
    ELSE [r EXCEPT !.lastTouchCount = Len(tch)]

RemoveAt(s, j) == [ x \in 1..(Len(s) - 1) |-> IF x < j THEN s[x] ELSE s[x + 1] ]

notCanvas == << polygons, palette, paletteType, currentParams, colorCount, pc, args, call,
                l_seq, u_seq, baseWedge, front_directions, i, console, ret, kept, inputs,
                statusText, timers, running, displayed, events, modePreferences,
                currentMode, pending, chosen >>

\* A finger is put down.
TouchStart ==
    /\ touchEvents < MaxTouchEvents
    /\ Len(touches) < MaxTouches
    /\ \E p \in Positions, found \in HoverValues :
         /\ touches' = Append(touches, p)
         /\ renderer' = handleTouch(renderer, "touchstart", Append(touches, p), found)
    /\ touchEvents' = touchEvents + 1
    /\ UNCHANGED notCanvas

\* A finger moves.
TouchMove ==
    /\ touchEvents < MaxTouchEvents
    /\ \E j \in 1..Len(touches), found \in HoverValues :
         \E p \in Positions \ {touches[j]} :
           /\ touches' = [touches EXCEPT ![j] = p]
           /\ renderer' = handleTouch(renderer, "touchmove", [touches EXCEPT ![j] = p], found)
    /\ touchEvents' = touchEvents + 1
    /\ UNCHANGED notCanvas

\* A finger is lifted.
TouchEnd ==
    /\ touchEvents < MaxTouchEvents
    /\ \E j \in 1..Len(touches) :
         /\ touches' = RemoveAt(touches, j)
         /\ renderer' = handleTouchEnd(renderer, RemoveAt(touches, j))
    /\ touchEvents' = touchEvents + 1
    /\ UNCHANGED notCanvas

InitTouch == InitPage

NextTouch ==
    \/ TouchStart
    \/ TouchMove
    \/ TouchEnd

SpecTouch == InitTouch /\ [][NextTouch]_vars

\* The viewport changed in this step.
ViewChanged ==
    \/ renderer'.offsetX # renderer.offsetX
    \/ renderer'.offsetY # renderer.offsetY
    \/ renderer'.scale2 # renderer.scale2

\* A touch event with one active touch, before or after it, leaves the
\* viewport alone; the viewport changes only in a touchmove of two touches.
OnlyTwoFingerMoveMovesView ==
    /\ ((Len(touches) = 1 \/ Len(touches') = 1) => ~ ViewChanged)
    /\ (ViewChanged => /\ Len(touches) = 2
                       /\ Len(touches') = 2
                       /\ touches' # touches)

\* C23: a one-finger touch only highlights: no touchstart, touchmove or
\* touchend with exactly one active touch changes offsetX, offsetY or scale,
\* and touch changes them only on a touchmove with exactly two touches.
C23_OneFingerNeverPans == [][OnlyTwoFingerMoveMovesView]_vars

\* One finger was put down and moved, something was found under it, and the
\* viewport is as the constructor left it.
C23_Witness ==
    /\ touchEvents = 2
    /\ Len(touches) = 1
    /\ renderer.lastTouchCount = 1
    /\ renderer.hoveredWedgeIndex = 0
    /\ renderer.offsetX = RendererInit.offsetX
    /\ renderer.offsetY = RendererInit.offsetY
    /\ renderer.scale2 = RendererInit.scale2

\* Two fingers were put down and one moved: the viewport was panned and
\* zoomed.
C23_WitnessPan ==
    /\ touchEvents = 3
    /\ Len(touches) = 2
    /\ renderer.offsetX # RendererInit.offsetX
    /\ renderer.scale2 # RendererInit.scale2

\* C30: whenever two touches are active and the next touchmove will not
\* re-capture the references (lastTouchCount is already 2), the pan
\* midpoint and pinch-distance references are those of the two touches as
\* they are now, so that the next touchmove pans and zooms only by the
\* movement since.
C30_ReferencesCaptured ==
    (Len(touches) = 2 /\ renderer.lastTouchCount = 2) =>
      /\ renderer.lastX = MidX(touches)
      /\ renderer.lastY = MidY(touches)
      /\ renderer.lastPinchDist2 = Dist2(touches)

\* ----------------------------------------------------------------------
\* The polygons as point sets, for n = 4 and n = 6
\* ----------------------------------------------------------------------
\* For these n the unit vectors (cos, sin)(dirIndex * 2*pi / n) are lattice
\* vectors: of the square lattice for n = 4, and of the triangular lattice,
\* written in the basis (1, w) with w = exp(i*pi/3), for n = 6.  Every edge of
\* a polygon is then a unit edge of the lattice and every polygon a union of
\* cells: unit squares for n = 4, unit triangles for n = 6.
LatticeN == {4, 6}

\* The point as << a, b >>
LatticePoint(pt, n) ==
    IF n = 4
    THEN << pt[0] - pt[2], pt[1] - pt[3] >>
    ELSE << pt[0] - pt[2] - pt[3] + pt[5], pt[1] + pt[2] - pt[4] - pt[5] >>

\* The edges of a closed path
LatticeEdges(path, n) ==
    [ j \in 1..Len(path) |->
        << LatticePoint(path[j], n), LatticePoint(path[(j % Len(path)) + 1], n) >> ]

\* A cell is << a, b, upper >>: the square with corners (a, b), (a + 1, b + 1)
\* for n = 4 (upper is FALSE); for n = 6 the lower triangle (a, b), (a + 1, b),
\* (a, b + 1) or the upper triangle (a + 1, b), (a + 1, b + 1), (a, b + 1).
\* The ray from the centre of the cell in direction +a crosses the edge.
Crosses(edge, cell) ==
    LET lo == IF edge[1][2] < edge[2][2] THEN edge[1] ELSE edge[2]
        hi == IF edge[1][2] < edge[2][2] THEN edge[2] ELSE edge[1]
    IN  /\ edge[1][2] # edge[2][2]
        /\ lo[2] = cell[2]
        /\ IF hi[1] = lo[1]
           THEN lo[1] >= cell[1] + 1
           ELSE IF cell[3] THEN hi[1] >= cell[1] + 1 ELSE hi[1] >= cell[1]

\* isPointInPoly for the centre of a cell: the ray crosses the path an odd
\* number of times.
isPointInPoly(cell, path, n) ==
    Cardinality({ j \in 1..Len(path) : Crosses(LatticeEdges(path, n)[j], cell) }) % 2 = 1

MinOf(S) == CHOOSE x \in S : \A y \in S : x <= y

MaxOf(S) == CHOOSE x \in S : \A y \in S : x >= y

\* The cells of a box around all the polygons, one cell wider on each side.
Box(polys, n) ==
    LET pts == UNION { { LatticePoint(polys[a].path[j], n) : j \in 1..Len(polys[a].path) } :
                       a \in 1..Len(polys) }
        as == { p[1] : p \in pts }
        bs == { p[2] : p \in pts }
    IN  { << a, b, upper >> : a \in (MinOf(as) - 1)..MaxOf(as),
                              b \in (MinOf(bs) - 1)..MaxOf(bs),
                              upper \in (IF n = 4 THEN {FALSE} ELSE BOOLEAN) }

\* The outermost cells of the box
Rim(box) ==
    LET as == { c[1] : c \in box }
        bs == { c[2] : c \in box }
    IN  { c \in box : c[1] \in {MinOf(as), MaxOf(as)} \/ c[2] \in {MinOf(bs), MaxOf(bs)} }

\* The cells each polygon covers
TileCells(polys, n) ==
    LET box == Box(polys, n)
    IN  [ a \in 1..Len(polys) |-> { cell \in box : isPointInPoly(cell, polys[a].path, n) } ]

\* The cells sharing an edge with the cell
Neighbours(cell, n) ==
    IF n = 4
    THEN { << cell[1] + 1, cell[2], FALSE >>, << cell[1] - 1, cell[2], FALSE >>,
           << cell[1], cell[2] + 1, FALSE >>, << cell[1], cell[2] - 1, FALSE >> }
    ELSE IF cell[3]
    THEN { << cell[1], cell[2], FALSE >>, << cell[1] + 1, cell[2], FALSE >>,
           << cell[1], cell[2] + 1, FALSE >> }
    ELSE { << cell[1], cell[2], TRUE >>, << cell[1] - 1, cell[2], TRUE >>,
           << cell[1], cell[2] - 1, TRUE >> }

\* The free cells that can be reached from the cells seen through free cells
RECURSIVE Flood(_, _, _)
Flood(seen, free, n) ==
    LET more == { c \in free \ seen : Neighbours(c, n) \cap seen # {} }
    IN  IF more = {} THEN seen ELSE Flood(seen \cup more, free, n)

\* The cells around the centre of the tiling: around the origin, where the
\* wedges meet; in offset mode around the edge from the origin to
\* getVector(0), whose midpoint the reflected copy is reflected about.
CentreCells(n, isOffset) ==
    IF isOffset
    THEN IF n = 4 THEN { << 0, 0, FALSE >>, << 0, -1, FALSE >> }
                  ELSE { << 0, 0, FALSE >>, << 0, -1, TRUE >> }
    ELSE IF n = 4
    THEN { << 0, 0, FALSE >>, << -1, 0, FALSE >>, << 0, -1, FALSE >>, << -1, -1, FALSE >> }
    ELSE { << 0, 0, FALSE >>, << -1, 0, TRUE >>, << -1, 0, FALSE >>,
           << -1, -1, TRUE >>, << 0, -1, FALSE >>, << 0, -1, TRUE >> }

\* No cell lies in two polygons; the cells no polygon covers are all
\* connected to the outside, so the polygons enclose no gap; and for a
\* tiling the cells around its centre are covered, so the polygons surround
\* it completely.
CoversWithoutGapsOrOverlaps(polys, n, isOffset, wholeTiling) ==
    LET cells == TileCells(polys, n)
        box == Box(polys, n)
        covered == UNION { cells[a] : a \in 1..Len(polys) }
    IN  /\ \A a, b \in 1..Len(polys) : a < b => cells[a] \cap cells[b] = {}
        /\ Rim(box) \cap covered = {}
        /\ Flood(Rim(box), box \ covered, n) = box \ covered
        /\ (wholeTiling => CentreCells(n, isOffset) \subseteq covered)

\* gcd(m, k) = 1 and n = k*t, or n = 2*(t*k - m) for generateTiling in offset
\* mode, for some t >= 1.
ValidParameters ==
    /\ args.m >= 1
    /\ gcd(args.m, args.k) = 1
    /\ args.n >= args.k
    /\ IF call = "generateTiling" /\ args.isOffset
       THEN \E t \in 1..MaxN : args.n = 2 * (t * args.k - args.m)
       ELSE args.n % args.k = 0

\* generateWedge or generateTiling has returned polygons for valid
\* parameters with n = 4 or n = 6.
TilesReturned ==
    /\ pc = "idle"
    /\ call \in {"generateWedge", "generateTiling"}
    /\ ValidParameters
    /\ args.n \in LatticeN
    /\ Len(ret) > 0

\* C21 as stated: for all valid parameters (gcd(m, k) = 1, n = k*t or
\* n = 2*(t*k - m)) the tiles generateWedge and generateTiling return cover
\* the region without gaps and without overlaps: no two tiles share interior
\* points and the tiles of a tiling cover the disc around its centre.
C21_NoGapsNoOverlaps ==
    TilesReturned =>
      CoversWithoutGapsOrOverlaps(ret, args.n, call = "generateTiling" /\ args.isOffset,
                                  call = "generateTiling")

\* For valid parameters with n > k the tiles generateWedge and
\* generateTiling return all have the same positive area, no two of them
\* share interior points, they enclose no gap, and the tiles of a tiling
\* cover the disc around its centre.  (With n = k the directions 0 and k
\* coincide, the path of the prototile runs back over itself, and every tile
\* has area 0.)
ProperTilesCover ==
    (TilesReturned /\ args.n > args.k) =>
      /\ CoversWithoutGapsOrOverlaps(ret, args.n, call = "generateTiling" /\ args.isOffset,
                                     call = "generateTiling")
      /\ LET cells == TileCells(ret, args.n)
         IN  \A a \in 1..Len(ret) : /\ cells[a] # {}
                                    /\ Cardinality(cells[a]) = Cardinality(cells[1])

====
